---- MODULE Spec2Model ----
(***************************************************************************)
(* Long-form recording pipeline of LongFormSTT: AudioRecorder (capture     *)
(* loop, deadline split at the next pause, one transcription thread per    *)
(* chunk, ordered reassembly) driven by the serial command thread of       *)
(* STTApp / CommandServer.                                                 *)
(*                                                                         *)
(* Time is in milliseconds.  A thread of the program is a position (pc)    *)
(* plus its locals; one step of a thread is one action.  The record loop   *)
(* body up to the split decision is one step, _split_chunk is two steps    *)
(* (thread hand-off, then index/file advance), each assignment of the      *)
(* loop's finally block is one step, and stop_and_transcribe /             *)
(* reset_transcription advance statement by statement where they read or   *)
(* write state shared with the other threads.                              *)
(***************************************************************************)
EXTENDS Integers, Sequences, FiniteSets, TLC

\* ------------------------------------------------------------------ bounds
MaxSessions == 2        \* start() calls that get past the recording guard
MaxFrames == 2          \* frames the device delivers when the input is free
MaxIoErrors == 1        \* device / file errors raised during the run
MaxStartErrors == 1     \* start() calls that fail to open the stream or a file
MaxFlashes == 1         \* flash_white() calls of the application
MaxSsFrames == 16       \* frames the Session script reads
MaxSsChunks == 3        \* chunk files of one Session
MaxVadFrames == 4       \* complete 30 ms sub-frames of a chunk given to _is_speech
MaxRtSessions == 2      \* real-time start() calls that get past the guard
MaxRtFrames == 5        \* frames the real-time loops read
MaxSfThreads == 2       \* static-file transcriptions started
MaxLvChunks == 3        \* chunks of a session of the list-collecting script
MaxLvSessions == 2      \* sessions of the list-collecting script
MaxCtxFrames == 24      \* frames one real-time loop appends to its segments
MaxCtxFlushes == 3      \* segments one real-time loop takes to the model

\* -------------------------------------------------------- program constants
Rate == 16000
Threshold == 500
SilenceLimitSec == 1500         \* silence_limit_sec = 1.5, in ms
ChunkSplitInterval == 60000     \* chunk_split_interval = 60, in ms
SplitSilence == 100             \* the 0.1 of _record_loop, in ms
WavHeader == 44
SampleWidth == 2
SilenceThresholdMs == 500       \* RealtimeTranscriptionHandler.silence_threshold_ms
GraceRounds == 5                \* grace_period 0.5 s in sleeps of 0.1 s
KeepContext == 20               \* the 20 of keep_frames = min(20, ...)
FrameDurationMs == 30           \* frame_duration_ms of _is_speech

\* frames_per_buffer values of the run: the default, and frames of half a
\* second and of a second
DefaultChunk == 1024
ChunkSizes == {DefaultChunk, Rate \div 2, Rate}

\* ------------------------------------------------------------ input domains
\* Peak amplitudes of a frame (one just under the threshold, one at it).
Peaks == {Threshold - 1, Threshold}
\* The words of a chunk's audio: chunk i of session s says its letter s times.
Alphabet == << "A", "B", "C", "D", "E", "F", "G", "H", "I", "J", "K", "L" >>
Word(s, i) == [k \in 1..s |-> Alphabet[i]]
\* Text of the model for one chunk, hallucination patterns already removed:
\* its words after the blank Whisper puts in front of a segment.
ModelOutputs(s, i) == { << " " >> \o Word(s, i) }
\* The boundary stream of the deadline rule: speech, then a short pause.
BoundarySpeech == ChunkSplitInterval - SplitSilence
BoundarySilence == 2 * SplitSilence

None == 0
MaxIndex == MaxFrames + MaxSessions + 2
Absent == 0 - 1

\* ------------------------------------------------------------------- state
VARIABLES
    recording,              \* self.recording
    recording_thread,       \* self.recording_thread: None or a record thread
    stream,                 \* self.stream is open
    active_wave_file,       \* self.active_wave_file: None or the file it writes
    active_filename,        \* self.active_filename: None or the chunk file number
    current_chunk_index,    \* self.current_chunk_index
    record_start_time,      \* self.record_start_time
    next_split_time,        \* self.next_split_time
    chunk_split_requested,  \* self.chunk_split_requested
    buffer,                 \* len(self.buffer), frames not yet written
    partial_transcripts,    \* self.partial_transcripts, in insertion order
    transcription_threads,  \* self.transcription_threads: thread numbers
    files,                  \* temp_audio_file<i>.wav: Absent, or frames written
    clock,                  \* time.time()
    config,                 \* self.config: chunk (frames_per_buffer)
    input,                  \* "any" or "boundary": what the device delivers
    recPc,                  \* position of each record thread
    recLocal,               \* locals of each record thread
    threads,                \* every transcription thread ever started
    cmdPc,                  \* position of the command thread
    cmdLocal,               \* locals of the command in progress
    sink,                   \* texts handed to pyperclip.copy / ctrl+v
    history,                \* observation of the run (not program state)
    rt,                     \* RealtimeTranscriptionHandler, its loop threads, its caller
    sf,                     \* StaticFileProcessor, its threads, its caller
    lv,                     \* the list-collecting long-form script
    ctx,                    \* the segment lists of one real-time loop
    app,                    \* STTApp with its recorder, handler flags and tray
    ca,                     \* the audio stream of the real-time handler
    ss,                     \* a Session of the Session-class long-form script
    vad                     \* one audio chunk given to _is_speech

recorder == << recording, recording_thread, stream, active_wave_file,
               active_filename, current_chunk_index, record_start_time,
               next_split_time, chunk_split_requested, buffer,
               partial_transcripts, transcription_threads, files >>

vars == << recording, recording_thread, stream, active_wave_file,
           active_filename, current_chunk_index, record_start_time,
           next_split_time, chunk_split_requested, buffer,
           partial_transcripts, transcription_threads, files, clock, config,
           input, recPc, recLocal, threads, cmdPc, cmdLocal, sink, history,
           rt, sf, lv, ctx, app, ca, ss, vad >>

\* the components of main.py, the stream clean-up, the Session script, the VAD
extra == << app, ca, ss, vad >>

\* the components beside the long-form recorder
aside == << rt, sf, lv, ctx, extra >>

\* the long-form recorder and its threads
main == << recording, recording_thread, stream, active_wave_file,
           active_filename, current_chunk_index, record_start_time,
           next_split_time, chunk_split_requested, buffer,
           partial_transcripts, transcription_threads, files, clock, config,
           input, recPc, recLocal, threads, cmdPc, cmdLocal, sink, history >>

RecThreads == 1..MaxSessions

\* chunk_time = float(self.config.chunk) / self.config.rate
ChunkTime == (config.chunk * 1000) \div Rate

\* Config.chunks_per_second
chunks_per_second == Rate \div config.chunk

\* Wall-clock time between two reads: one frame, or a long stretch.
ClockSteps == {ChunkTime, ChunkSplitInterval, 2 * ChunkSplitInterval}

FrameBytes == config.chunk * SampleWidth

\* ----------------------------------------------------------------- helpers
IsSpace(c) == c = " "

\* text[1:] when text is non-empty and text[0].isspace()
StripLeading(text) ==
    IF Len(text) > 0 /\ IsSpace(text[1]) THEN Tail(text) ELSE text

\* a transcribe whose except branch returns a marker instead of ""
TranscribeMarkingFailure(raw, ok) == IF ok THEN StripLeading(raw) ELSE << "?" >>

\* Transcriber.transcribe: join, strip one leading blank; "" on any exception
Transcribe(raw, ok) == IF ok THEN StripLeading(raw) ELSE << >>

\* a store that adds an entry on every write, as a list would
DictSetAppending(d, k, v) == Append(d, [idx |-> k, text |-> v])

\* d[k] = v on a dict kept in insertion order (a present key keeps its place)
DictSet(d, k, v) ==
    IF \E i \in 1..Len(d) : d[i].idx = k
    THEN [i \in 1..Len(d) |-> IF d[i].idx = k THEN [idx |-> k, text |-> v] ELSE d[i]]
    ELSE Append(d, [idx |-> k, text |-> v])

DictKeys(d) == { d[i].idx : i \in 1..Len(d) }

DictGet(d, k) == d[CHOOSE i \in 1..Len(d) : d[i].idx = k].text

\* sorted(keys): the ascending sequence of a finite set of integers
RECURSIVE Sorted(_)
Sorted(S) ==
    IF S = {} THEN << >>
    ELSE LET m == CHOOSE x \in S : \A y \in S : x <= y
         IN  << m >> \o Sorted(S \ {m})

\* "".join(texts)
RECURSIVE Join(_)
Join(texts) == IF texts = << >> THEN << >> ELSE Head(texts) \o Join(Tail(texts))

\* the texts of d in the order of d.keys(), without the sort
OrderedTextsByInsertion(d) == [i \in 1..Len(d) |-> d[i].text]

\* the texts of d in the order of sorted(d.keys())
OrderedTexts(d) ==
    LET keys == Sorted(DictKeys(d))
    IN  [i \in 1..Len(keys) |-> DictGet(d, keys[i])]

\* full_text of stop_and_transcribe
FullText(d) == StripLeading(Join(OrderedTexts(d)))

\* os.path.getsize of a chunk file that exists
FileSize(frames) == WavHeader + frames * FrameBytes

\* os.path.exists(f) and os.path.getsize(f) > 44
HasAudio(fs, f) == f # None /\ fs[f] # Absent /\ FileSize(fs[f]) > WavHeader

\* peak < threshold
IsSilent(peak) == peak < Threshold

\* _flush_buffer: the buffer goes to the open wave file, if there is one
FlushedFiles(fs, awf, buf) ==
    IF buf > 0 /\ awf # None /\ fs[awf] # Absent
    THEN [fs EXCEPT ![awf] = @ + buf] ELSE fs

FlushedBuffer(awf, buf) == IF buf > 0 /\ awf # None THEN 0 ELSE buf

IdleLocal == [chunk_count |-> 0, silence_duration |-> 0, peak |-> Threshold,
              elapsed |-> 0, deadline |-> 0]

NoCmd == [op |-> "none", target |-> None, joinIdx |-> 0]

\* ----------------------------------------------- the components at rest
RtThreads == 1..MaxRtSessions
SfThreads == 1..MaxSfThreads
LvChunks == 1..MaxLvChunks

\* RealtimeTranscriptionHandler.__init__, no command in progress
RtIdle ==
    [is_running |-> FALSE, stop_event |-> FALSE, thread |-> None, stream |-> None,
     is_speech_active |-> FALSE, clock |-> 1,
     pc |-> [t \in RtThreads |-> "unborn"],
     silence_start_time |-> [t \in RtThreads |-> 0],
     cmd |-> "idle",
     sessions |-> 0, frames |-> 0, ioErrors |-> 0,
     pauseStart |-> [t \in RtThreads |-> 0],
     lastRead |-> [t \in RtThreads |-> None],
     flushes |-> 0, flushGap |-> 0, flushFrom |-> 0, flushPause |-> 0,
     missed |-> FALSE, lastOp |-> "none",
     broken |-> FALSE,
     segLen |-> [t \in RtThreads |-> 0],
     segSpeech |-> [t \in RtThreads |-> 0]]

\* StaticFileProcessor.__init__, no command in progress
SfIdle ==
    [transcription_thread |-> None, abort_static_transcription |-> FALSE,
     platform |-> "other",
     pc |-> [t \in SfThreads |-> "unborn"],
     killed |-> [t \in SfThreads |-> FALSE],
     cmd |-> "idle", target |-> None, rounds |-> 0,
     started |-> 0, aborted |-> {}, shown |-> {}, lastOp |-> "none"]

\* the list-collecting script before start_recording
LvIdle ==
    [recording |-> FALSE, current_chunk_index |-> 1, transcription_threads |-> {},
     done |-> {}, kept |-> {}, partial_transcripts |-> << >>, pc |-> "idle",
     sink |-> << >>, sessions |-> 0]

\* accumulated_speech and current_segment at the start of _transcription_loop;
\* frames are numbered in the order they are appended
CtxIdle ==
    [accumulated_speech |-> << >>, current_segment |-> << >>, next |-> 1,
     flushes |-> 0, before |-> << >>, passed |-> << >>]

\* STTApp.__init__ with its components, tray icon gray (STTApp.start), no
\* command in progress
AppIdle ==
    [cmd |-> "idle",
     recording |-> FALSE, recorder |-> FALSE, text_ready |-> FALSE,
     final_text |-> 0, ttPc |-> "none",
     is_running |-> FALSE, rtThread |-> None,
     rtPc |-> [t \in 1..MaxRtSessions |-> "unborn"], rtSessions |-> 0,
     transcription_thread |-> None,
     sfPc |-> [t \in 1..MaxSfThreads |-> "unborn"], sfStarted |-> 0,
     platform |-> "other",
     icon |-> "gray",
     flashPc |-> [f \in 1..MaxFlashes |-> "unborn"],
     flashFinal |-> [f \in 1..MaxFlashes |-> "gray"],
     flashStale |-> [f \in 1..MaxFlashes |-> FALSE],
     flashes |-> 0, lastOp |-> "none"]

\* RealtimeTranscriptionHandler.__init__ as far as the stream is concerned;
\* actor 0 is the thread that calls start() and stop(), actor t > 0 is the
\* loop thread of session t
CaIdle ==
    [is_running |-> FALSE, stream |-> None, cmd |-> "idle", sessions |-> 0,
     pc |-> [t \in 1..MaxRtSessions |-> "unborn"],
     clean |-> [a \in 0..MaxRtSessions |-> "off"],
     touched |-> [st \in 1..MaxRtSessions |-> {}],
     derefNone |-> {}]


\* the Session script before F3: no session, time.time() far from 0
SsIdle ==
    [recording |-> FALSE, current_session |-> FALSE,
     current_chunk_index |-> 1, active_filename |-> None,
     active_wave_file |-> FALSE, stream |-> FALSE,
     partial_transcripts |-> << >>, transcription_threads |-> << >>,
     buffer |-> 0, chunk_count |-> 0, silent_duration |-> 0,
     record_start_time |-> 0, next_split_time |-> 0,
     chunk_split_requested |-> FALSE,
     files |-> [k \in 1..MaxSsChunks |-> Absent],
     tpc |-> [k \in 1..MaxSsChunks |-> "unborn"],
     pc |-> "unborn", fpc |-> "unborn", cmd |-> "idle",
     clock |-> 10 * ChunkSplitInterval, startedAt |-> 0, frames |-> 0,
     sinceSplit |-> 0, lost |-> 0, emitted |-> FALSE, sink |-> << >>]

\* no chunk given to _is_speech yet
VadIdle ==
    [pc |-> "idle", available |-> TRUE, len |-> 0, classes |-> << >>,
     result |-> FALSE]

\* no object of the second group is constructed: a specification that does
\* not run a component holds None in its place
ExtraIdle == app = None /\ ca = None /\ ss = None /\ vad = None

\* ------------------------------------------------------------------- init
Init ==
    /\ rt = None
    /\ sf = None
    /\ lv = None
    /\ ctx = None /\ ExtraIdle
    /\ recording = FALSE
    /\ recording_thread = None
    /\ stream = FALSE
    /\ active_wave_file = None
    /\ active_filename = None
    /\ current_chunk_index = 1
    /\ record_start_time = 0
    /\ next_split_time = 0
    /\ chunk_split_requested = FALSE
    /\ buffer = 0
    /\ partial_transcripts = << >>
    /\ transcription_threads = << >>
    /\ files = [i \in 1..MaxIndex |-> Absent]
    /\ clock = 0
    /\ config \in { [chunk |-> c] : c \in ChunkSizes }
    /\ input \in {"any", "boundary"}
    /\ input = "boundary" => config.chunk = DefaultChunk
    /\ recPc = [t \in RecThreads |-> "unborn"]
    /\ recLocal = [t \in RecThreads |-> IdleLocal]
    /\ threads = << >>
    /\ cmdPc = "idle"
    /\ cmdLocal = NoCmd
    /\ sink = << >>
    /\ history = [sessions |-> 0, frames |-> 0, ioErrors |-> 0, lastOp |-> "none",
                  window |-> FALSE, splits |-> 0, readErrors |-> 0,
                  reset |-> {}, splitAt |-> 0, startErrors |-> 0]

\* ------------------------------------------------------ the command thread
\* CommandServer._run_server / _handle_command: one command at a time.
Receive ==
    /\ cmdPc = "idle"
    /\ \E c \in {"start", "stop", "reset"} : cmdPc' = c
    /\ UNCHANGED << recorder, clock, aside, config, input, recPc, recLocal, threads, cmdLocal,
                    sink, history >>

\* a start() without its guard
StartGuardAbsent == FALSE

\* if self.recording: ... return
StartGuard == recording

\* AudioRecorder.start
Start ==
    /\ cmdPc = "start"
    /\ cmdPc' = "idle"
    /\ UNCHANGED << clock, aside, config, input, threads, cmdLocal, sink >>
    /\ IF StartGuard
       THEN /\ history' = [history EXCEPT !.lastOp = "start_rejected"]
            /\ UNCHANGED << recorder, recPc, recLocal >>
       ELSE /\ input = "boundary" => history.sessions = 0
            /\ partial_transcripts' = << >>
            /\ transcription_threads' = << >>
            /\ buffer' = 0
            /\ current_chunk_index' = 1
            /\ record_start_time' = clock
            /\ next_split_time' = clock + ChunkSplitInterval
            /\ chunk_split_requested' = FALSE
            /\ active_filename' = 1
            /\ \E opened \in BOOLEAN :
                 IF opened
                 THEN LET t == history.sessions + 1 IN
                      /\ history.sessions < MaxSessions
                      /\ recording' = TRUE
                      /\ stream' = TRUE
                      /\ active_wave_file' = 1
                      /\ files' = [i \in 1..MaxIndex |-> IF i = 1 THEN 0 ELSE Absent]
                      /\ recording_thread' = t
                      /\ recPc' = [recPc EXCEPT ![t] = "loop"]
                      /\ recLocal' = [recLocal EXCEPT ![t] = IdleLocal]
                      /\ history' = [history EXCEPT !.sessions = t, !.lastOp = "start",
                                                    !.window = TRUE, !.splits = 0,
                                                    !.readErrors = 0, !.splitAt = 0]
                 ELSE \* audio.open or wave.open raised: except branch
                      /\ input = "any"
                      /\ history.startErrors < MaxStartErrors
                      /\ recording' = FALSE
                      /\ stream' = FALSE
                      /\ active_wave_file' = None
                      /\ files' = [i \in 1..MaxIndex |-> Absent]
                      /\ history' = [history EXCEPT !.startErrors = @ + 1,
                                                    !.lastOp = "start_failed"]
                      /\ UNCHANGED << recording_thread, recPc, recLocal >>

\* ------------------------------------------------------- the record thread
\* what one read returns: the frame's peak and the time that passed
Frames ==
    IF input = "any"
    THEN { [peak |-> p, dt |-> d] : p \in Peaks, d \in ClockSteps }
    ELSE { [peak |-> IF clock - record_start_time < BoundarySpeech
                     THEN Threshold ELSE Threshold - 1,
            dt |-> ChunkTime] }

\* whether the device has another frame for this run
FrameAvailable ==
    IF input = "any"
    THEN history.frames < MaxFrames
    ELSE clock + ChunkTime - record_start_time <= BoundarySpeech + BoundarySilence

\* if (not self.chunk_split_requested) and (elapsed >= next_split_time - record_start_time)
DeadlineReached(elapsed) == elapsed >= next_split_time - record_start_time

\* a split taken as soon as it is requested, on any frame
SplitNowOnRequest(requested, silent, silence_duration) == requested

\* if self.chunk_split_requested and (silence_duration >= 0.1), inside the
\* branch of peak < threshold
SplitNow(requested, silent, silence_duration) ==
    silent /\ requested /\ silence_duration >= SplitSilence

\* if silence_duration <= self.config.silence_limit_sec (speech is always kept)
KeepFrame(silent, silence_duration) ==
    (~silent) \/ silence_duration <= SilenceLimitSec

\* One pass of the while loop of _record_loop up to the call of _split_chunk,
\* or the exit of the loop with the final _flush_buffer.
RecIterate(t) ==
    /\ recPc[t] = "loop"
    /\ UNCHANGED << recording, recording_thread, active_wave_file, active_filename,
                    current_chunk_index, record_start_time, next_split_time,
                    partial_transcripts, transcription_threads, aside, config, input, threads,
                    cmdPc, cmdLocal, sink >>
    /\ IF ~recording
       THEN /\ files' = FlushedFiles(files, active_wave_file, buffer)
            /\ buffer' = FlushedBuffer(active_wave_file, buffer)
            /\ recPc' = [recPc EXCEPT ![t] = "cleanup"]
            /\ recLocal' = [recLocal EXCEPT ![t] = IdleLocal]
            /\ UNCHANGED << stream, chunk_split_requested, clock, history >>
       ELSE IF ~stream
       THEN \* self.stream is None: the read raises, the except branch runs
            /\ recPc' = [recPc EXCEPT ![t] = "cleanup"]
            /\ recLocal' = [recLocal EXCEPT ![t] = IdleLocal]
            /\ history' = [history EXCEPT !.readErrors = @ + 1]
            /\ UNCHANGED << stream, chunk_split_requested, clock, files, buffer >>
       ELSE /\ FrameAvailable
            /\ \E f \in Frames :
                LET now       == clock + f.dt
                    elapsed   == now - record_start_time
                    requested == chunk_split_requested \/ DeadlineReached(elapsed)
                    silent    == IsSilent(f.peak)
                    silence   == IF silent
                                 THEN recLocal[t].silence_duration + ChunkTime ELSE 0
                    keep      == KeepFrame(silent, silence)
                    buf       == IF keep THEN buffer + 1 ELSE buffer
                    count     == IF keep THEN recLocal[t].chunk_count + 1
                                 ELSE recLocal[t].chunk_count
                    split     == SplitNow(requested, silent, silence)
                    flush     == (~split) /\ count >= chunks_per_second
                IN  /\ clock' = now
                    /\ chunk_split_requested' = requested
                    /\ history' = [history EXCEPT !.frames = IF input = "any" THEN @ + 1 ELSE @]
                    /\ files' = IF flush THEN FlushedFiles(files, active_wave_file, buf)
                                ELSE files
                    /\ buffer' = IF flush THEN FlushedBuffer(active_wave_file, buf) ELSE buf
                    /\ recLocal' = [recLocal EXCEPT ![t] =
                           [chunk_count |-> IF flush THEN 0 ELSE count,
                            silence_duration |-> silence,
                            peak |-> f.peak,
                            elapsed |-> elapsed,
                            deadline |-> next_split_time - record_start_time]]
                    /\ recPc' = [recPc EXCEPT ![t] = IF split THEN "split" ELSE "loop"]
                    /\ UNCHANGED stream

\* self.stream.read raises (any error but an input overflow): the except
\* branch of _record_loop prints it and the finally block follows.
RecReadError(t) ==
    /\ recPc[t] = "loop"
    /\ recording
    /\ stream
    /\ input = "any"
    /\ history.ioErrors < MaxIoErrors
    /\ recPc' = [recPc EXCEPT ![t] = "cleanup"]
    /\ recLocal' = [recLocal EXCEPT ![t] = IdleLocal]
    /\ history' = [history EXCEPT !.ioErrors = @ + 1, !.readErrors = @ + 1]
    /\ UNCHANGED << recorder, clock, aside, config, input, threads, cmdPc, cmdLocal, sink >>

\* threading.Thread(target=self._transcribe_chunk, args=(chunk_path, chunk_idx))
NewThread(chunk_path, chunk_idx) ==
    [session |-> history.sessions, window |-> history.window,
     path |-> chunk_path, idx |-> chunk_idx,
     done |-> FALSE, failed |-> FALSE, late |-> FALSE, text |-> << >>]

\* _split_chunk, first half: close the chunk file, start its transcription
\* thread with the current index and keep the thread in the list.
SplitDispatch(t) ==
    /\ recPc[t] = "split"
    /\ active_wave_file' = None
    /\ threads' = Append(threads, NewThread(active_filename, current_chunk_index))
    /\ transcription_threads' = Append(transcription_threads, Len(threads) + 1)
    /\ recPc' = [recPc EXCEPT ![t] = "advance"]
    /\ history' = [history EXCEPT !.splits = @ + 1, !.splitAt = clock]
    /\ UNCHANGED << recording, recording_thread, stream, active_filename,
                    current_chunk_index, record_start_time, next_split_time,
                    chunk_split_requested, buffer, partial_transcripts, files,
                    clock, aside, config, input, recLocal, cmdPc, cmdLocal, sink >>

\* _split_chunk, second half, and the rest of the loop body after it: next
\* index, next file (wave.open may raise, which is caught), deadline re-armed,
\* then the periodic flush.
SplitAdvance(t) ==
    /\ recPc[t] = "advance"
    /\ current_chunk_index + 1 <= MaxIndex
    /\ current_chunk_index' = current_chunk_index + 1
    /\ active_filename' = current_chunk_index + 1
    /\ next_split_time' = next_split_time + ChunkSplitInterval
    /\ chunk_split_requested' = FALSE
    /\ \E opened \in BOOLEAN :
        LET awf   == IF opened THEN current_chunk_index + 1 ELSE None
            fs    == IF opened THEN [files EXCEPT ![current_chunk_index + 1] = 0]
                     ELSE files
            flush == recLocal[t].chunk_count >= chunks_per_second
        IN  /\ opened \/ (input = "any" /\ history.ioErrors < MaxIoErrors)
            /\ active_wave_file' = awf
            /\ files' = IF flush THEN FlushedFiles(fs, awf, buffer) ELSE fs
            /\ buffer' = IF flush THEN FlushedBuffer(awf, buffer) ELSE buffer
            /\ recLocal' = [recLocal EXCEPT ![t].chunk_count = IF flush THEN 0 ELSE @]
            /\ history' = [history EXCEPT !.ioErrors = IF opened THEN @ ELSE @ + 1]
    /\ recPc' = [recPc EXCEPT ![t] = "loop"]
    /\ UNCHANGED << recording, recording_thread, stream, record_start_time,
                    partial_transcripts, transcription_threads, clock, aside, config, input,
                    threads, cmdPc, cmdLocal, sink >>

\* finally: self._cleanup_resources()
RecCleanup(t) ==
    /\ recPc[t] = "cleanup"
    /\ active_wave_file' = None
    /\ stream' = FALSE
    /\ recPc' = [recPc EXCEPT ![t] = "clear_recording"]
    /\ UNCHANGED << recording, recording_thread, active_filename,
                    current_chunk_index, record_start_time, next_split_time,
                    chunk_split_requested, buffer, partial_transcripts,
                    transcription_threads, files, clock, aside, config, input, recLocal,
                    threads, cmdPc, cmdLocal, sink, history >>

\* finally: self.recording = False
RecClearRecording(t) ==
    /\ recPc[t] = "clear_recording"
    /\ recording' = FALSE
    /\ recPc' = [recPc EXCEPT ![t] = "clear_thread"]
    /\ UNCHANGED << recording_thread, stream, active_wave_file, active_filename,
                    current_chunk_index, record_start_time, next_split_time,
                    chunk_split_requested, buffer, partial_transcripts,
                    transcription_threads, files, clock, aside, config, input, recLocal,
                    threads, cmdPc, cmdLocal, sink, history >>

\* finally: self.recording_thread = None
RecClearThread(t) ==
    /\ recPc[t] = "clear_thread"
    /\ recording_thread' = None
    /\ recPc' = [recPc EXCEPT ![t] = "done"]
    /\ UNCHANGED << recording, stream, active_wave_file, active_filename,
                    current_chunk_index, record_start_time, next_split_time,
                    chunk_split_requested, buffer, partial_transcripts,
                    transcription_threads, files, clock, aside, config, input, recLocal,
                    threads, cmdPc, cmdLocal, sink, history >>

\* -------------------------------------------------- a transcription thread
\* what the model call of one chunk gives: a text, or an exception
Outcomes(th) ==
    { [ok |-> TRUE, raw |-> r] :
        r \in IF files[th.path] = Absent THEN {} ELSE ModelOutputs(th.session, th.idx) }
    \cup { [ok |-> FALSE, raw |-> << >>] }

\* self.partial_transcripts[chunk_idx] = text
Record(d, chunk_idx, text) == DictSet(d, chunk_idx, text)

\* AudioRecorder._transcribe_chunk
TranscribeChunk(i) ==
    /\ ~threads[i].done
    /\ \E o \in Outcomes(threads[i]) :
        LET text == Transcribe(o.raw, o.ok)
        IN  /\ partial_transcripts' = Record(partial_transcripts, threads[i].idx, text)
            /\ threads' = [threads EXCEPT ![i].done = TRUE, ![i].failed = ~o.ok,
                                          ![i].text = text,
                                          ![i].late = threads[i].session \in history.reset]
    /\ UNCHANGED << recording, recording_thread, stream, active_wave_file,
                    active_filename, current_chunk_index, record_start_time,
                    next_split_time, chunk_split_requested, buffer,
                    transcription_threads, files, clock, aside, config, input, recPc, recLocal,
                    cmdPc, cmdLocal, sink, history >>

\* ------------------------------------------- stop_and_transcribe and reset
\* a stop_and_transcribe() without its guard
StopGuardAbsent == FALSE

\* if not self.recording: ... return
StopGuard == ~recording

\* AudioRecorder.stop_and_transcribe up to self.recording = False
StopBegin ==
    /\ cmdPc = "stop"
    /\ IF StopGuard
       THEN /\ cmdPc' = "idle"
            /\ history' = [history EXCEPT !.lastOp = "stop_rejected"]
            /\ UNCHANGED << recording, cmdLocal >>
       ELSE /\ recording' = FALSE
            /\ cmdPc' = "check"
            /\ cmdLocal' = [NoCmd EXCEPT !.op = "stop"]
            /\ history' = [history EXCEPT !.lastOp = "stop"]
    /\ UNCHANGED << recording_thread, stream, active_wave_file, active_filename,
                    current_chunk_index, record_start_time, next_split_time,
                    chunk_split_requested, buffer, partial_transcripts,
                    transcription_threads, files, clock, aside, config, input, recPc, recLocal,
                    threads, sink >>

\* STTApp.reset_transcription up to self.recorder.recording = False; with no
\* live recording the command concerns the static file processor only.
ResetBegin ==
    /\ cmdPc = "reset"
    /\ IF recording
       THEN /\ recording' = FALSE
            /\ cmdPc' = "check"
            /\ cmdLocal' = [NoCmd EXCEPT !.op = "reset"]
            /\ history' = [history EXCEPT !.lastOp = "reset"]
       ELSE /\ cmdPc' = "idle"
            /\ history' = [history EXCEPT !.lastOp = "reset_idle"]
            /\ UNCHANGED << recording, cmdLocal >>
    /\ UNCHANGED << recording_thread, stream, active_wave_file, active_filename,
                    current_chunk_index, record_start_time, next_split_time,
                    chunk_split_requested, buffer, partial_transcripts,
                    transcription_threads, files, clock, aside, config, input, recPc, recLocal,
                    threads, sink >>

\* if self.recording_thread:
JoinCheck ==
    /\ cmdPc = "check"
    /\ cmdPc' = IF recording_thread # None THEN "load" ELSE "after"
    /\ UNCHANGED << recorder, clock, aside, config, input, recPc, recLocal, threads, cmdLocal,
                    sink, history >>

\* self.recording_thread.join(): the attribute is read again; on None the
\* call raises AttributeError, which ends the command in _run_server.
JoinLoad ==
    /\ cmdPc = "load"
    /\ IF recording_thread # None
       THEN /\ cmdPc' = "join"
            /\ cmdLocal' = [cmdLocal EXCEPT !.target = recording_thread]
            /\ UNCHANGED history
       ELSE /\ cmdPc' = "idle"
            /\ cmdLocal' = NoCmd
            /\ history' = [history EXCEPT
                    !.lastOp = IF cmdLocal.op = "stop" THEN "stop_error" ELSE "reset_error",
                    !.window = FALSE]
    /\ UNCHANGED << recorder, clock, aside, config, input, recPc, recLocal, threads, sink >>

\* the join returns once the record thread has ended
JoinWait ==
    /\ cmdPc = "join"
    /\ recPc[cmdLocal.target] = "done"
    /\ cmdPc' = "after"
    /\ UNCHANGED << recorder, clock, aside, config, input, recPc, recLocal, threads, cmdLocal,
                    sink, history >>

\* stop_and_transcribe: the final chunk is handed to a thread when its file
\* exists and holds more than the header.
StopFinal ==
    /\ cmdPc = "after"
    /\ cmdLocal.op = "stop"
    /\ IF HasAudio(files, active_filename)
       THEN /\ threads' = Append(threads, NewThread(active_filename, current_chunk_index))
            /\ transcription_threads' = Append(transcription_threads, Len(threads) + 1)
            /\ cmdPc' = "stop_inc"
            /\ UNCHANGED cmdLocal
       ELSE /\ cmdPc' = "stop_wait"
            /\ cmdLocal' = [cmdLocal EXCEPT !.joinIdx = 1]
            /\ UNCHANGED << threads, transcription_threads >>
    /\ UNCHANGED << recording, recording_thread, stream, active_wave_file,
                    active_filename, current_chunk_index, record_start_time,
                    next_split_time, chunk_split_requested, buffer,
                    partial_transcripts, files, clock, aside, config, input, recPc, recLocal,
                    sink, history >>

\* self.current_chunk_index += 1
StopInc ==
    /\ cmdPc = "stop_inc"
    /\ current_chunk_index' = current_chunk_index + 1
    /\ cmdPc' = "stop_wait"
    /\ cmdLocal' = [cmdLocal EXCEPT !.joinIdx = 1]
    /\ UNCHANGED << recording, recording_thread, stream, active_wave_file,
                    active_filename, record_start_time, next_split_time,
                    chunk_split_requested, buffer, partial_transcripts,
                    transcription_threads, files, clock, aside, config, input, recPc, recLocal,
                    threads, sink, history >>

\* for t in self.transcription_threads: t.join()
StopJoin ==
    /\ cmdPc = "stop_wait"
    /\ cmdLocal.joinIdx <= Len(transcription_threads)
    /\ threads[transcription_threads[cmdLocal.joinIdx]].done
    /\ cmdLocal' = [cmdLocal EXCEPT !.joinIdx = @ + 1]
    /\ UNCHANGED << recorder, clock, aside, config, input, recPc, recLocal, threads, cmdPc,
                    sink, history >>

\* the for loop over self.transcription_threads ends
StopJoined ==
    /\ cmdPc = "stop_wait"
    /\ cmdLocal.joinIdx > Len(transcription_threads)
    /\ cmdPc' = "combine"
    /\ UNCHANGED << recorder, clock, aside, config, input, recPc, recLocal, threads,
                    cmdLocal, sink, history >>

\* the texts in ascending key order, joined, one leading blank removed, and
\* handed to the clipboard and the paste keystroke
StopEmit ==
    /\ cmdPc = "combine"
    /\ sink' = Append(sink, FullText(partial_transcripts))
    /\ cmdPc' = "idle"
    /\ cmdLocal' = NoCmd
    /\ history' = [history EXCEPT !.lastOp = "stop_done", !.window = FALSE]
    /\ UNCHANGED << recorder, clock, aside, config, input, recPc, recLocal, threads >>

\* reset_transcription after the join: _cleanup_resources, both clears
ResetFinish ==
    /\ cmdPc = "after"
    /\ cmdLocal.op = "reset"
    /\ active_wave_file' = None
    /\ stream' = FALSE
    /\ partial_transcripts' = << >>
    /\ buffer' = 0
    /\ cmdPc' = "idle"
    /\ cmdLocal' = NoCmd
    /\ history' = [history EXCEPT !.lastOp = "reset_done", !.window = FALSE,
                                  !.reset = @ \cup {history.sessions}]
    /\ UNCHANGED << recording, recording_thread, active_filename,
                    current_chunk_index, record_start_time, next_split_time,
                    chunk_split_requested, transcription_threads, files, clock,
                    aside, config, input, recPc, recLocal, threads, sink >>

\* ------------------------------------------------------------ the program
RecordThread(t) ==
    \/ RecIterate(t)
    \/ RecReadError(t)
    \/ SplitDispatch(t)
    \/ SplitAdvance(t)
    \/ RecCleanup(t)
    \/ RecClearRecording(t)
    \/ RecClearThread(t)

CommandThread ==
    \/ Receive
    \/ Start
    \/ StopBegin
    \/ ResetBegin
    \/ JoinCheck
    \/ JoinLoad
    \/ JoinWait
    \/ StopFinal
    \/ StopInc
    \/ StopJoin
    \/ StopJoined
    \/ StopEmit
    \/ ResetFinish

Next ==
    \/ CommandThread
    \/ \E t \in RecThreads : RecordThread(t)
    \/ \E i \in 1..Len(threads) : TranscribeChunk(i)

Spec == Init /\ [][Next]_vars

\* Scheduling: a command in progress keeps running (which command arrives
\* next, and when, is the user's choice), every record thread and every
\* transcription thread gets to run, and every model call returns.
CommandSteps ==
    \/ Start
    \/ StopBegin
    \/ ResetBegin
    \/ JoinCheck
    \/ JoinLoad
    \/ JoinWait
    \/ StopFinal
    \/ StopInc
    \/ StopJoin
    \/ StopJoined
    \/ StopEmit
    \/ ResetFinish

MaxThreads == MaxSessions * MaxIndex

Fairness ==
    /\ WF_vars(CommandSteps)
    /\ \A t \in RecThreads : WF_vars(RecordThread(t))
    /\ \A i \in 1..MaxThreads : WF_vars(i <= Len(threads) /\ TranscribeChunk(i))

FairSpec == Spec /\ Fairness

\* the long-form recorder as constructed, with the default configuration
MainIdle ==
    /\ recording = FALSE
    /\ recording_thread = None
    /\ stream = FALSE
    /\ active_wave_file = None
    /\ active_filename = None
    /\ current_chunk_index = 1
    /\ record_start_time = 0
    /\ next_split_time = 0
    /\ chunk_split_requested = FALSE
    /\ buffer = 0
    /\ partial_transcripts = << >>
    /\ transcription_threads = << >>
    /\ files = [i \in 1..MaxIndex |-> Absent]
    /\ clock = 0
    /\ config = [chunk |-> DefaultChunk]
    /\ input = "any"
    /\ recPc = [t \in RecThreads |-> "unborn"]
    /\ recLocal = [t \in RecThreads |-> IdleLocal]
    /\ threads = << >>
    /\ cmdPc = "idle"
    /\ cmdLocal = NoCmd
    /\ sink = << >>
    /\ history = [sessions |-> 0, frames |-> 0, ioErrors |-> 0, lastOp |-> "none",
                  window |-> FALSE, splits |-> 0, readErrors |-> 0,
                  reset |-> {}, splitAt |-> 0, startErrors |-> 0]

\* =================================================== real-time transcription
\* RealtimeTranscriptionHandler: start / stop / toggle called from the command
\* thread, _transcription_loop run by one thread per start().  Time in ms.

\* Wall-clock time between two reads of the loop.
RtSteps == {1, SilenceThresholdMs - 1, SilenceThresholdMs}

\* what one read returns: whether _is_speech finds speech, and the time passed
RtFrames == { [speech |-> sp, dt |-> d] : sp \in BOOLEAN, d \in RtSteps }

\* while self.is_running and not self.stop_event.is_set()
RtLoopOn == rt.is_running /\ ~rt.stop_event

\* (current_time - silence_start_time) * 1000 >= self.silence_threshold_ms
RtPauseOver(now, silence_start_time) == now - silence_start_time >= SilenceThresholdMs

\* the caller: CommandServer._handle_command, one command at a time
RtReceive ==
    /\ rt.cmd = "idle"
    /\ \E c \in {"start", "stop", "toggle"} : rt' = [rt EXCEPT !.cmd = c]
    /\ UNCHANGED << main, sf, lv, ctx, extra >>

\* toggle(): stop() when running, start() otherwise
RtToggle ==
    /\ rt.cmd = "toggle"
    /\ rt' = [rt EXCEPT !.cmd = IF rt.is_running THEN "stop" ELSE "start"]
    /\ UNCHANGED << main, sf, lv, ctx, extra >>

\* if self.is_running: ... return
RtStartGuard == rt.is_running

\* start() up to and with _initialize_audio (audio.open may raise)
RtStartOpen ==
    /\ rt.cmd = "start"
    /\ IF RtStartGuard
       THEN rt' = [rt EXCEPT !.cmd = "idle", !.lastOp = "start_rejected"]
       ELSE /\ rt.sessions < MaxRtSessions
            /\ \E opened \in BOOLEAN :
                 IF opened
                 THEN rt' = [rt EXCEPT !.stream = rt.sessions + 1, !.cmd = "start_run"]
                 ELSE /\ rt.ioErrors < MaxIoErrors
                      /\ rt' = [rt EXCEPT !.cmd = "idle", !.ioErrors = @ + 1,
                                          !.lastOp = "start_failed"]
    /\ UNCHANGED << main, sf, lv, ctx, extra >>

\* start(): reset state, is_running = True, stop_event.clear(), thread start
RtStartRun ==
    /\ rt.cmd = "start_run"
    /\ LET t == rt.sessions + 1 IN
       rt' = [rt EXCEPT !.is_speech_active = FALSE,
                        !.is_running = TRUE,
                        !.stop_event = FALSE,
                        !.thread = t,
                        !.pc[t] = "loop",
                        !.silence_start_time[t] = 0,
                        !.pauseStart[t] = 0,
                        !.segLen[t] = 0,
                        !.segSpeech[t] = 0,
                        !.sessions = t,
                        !.cmd = "idle",
                        !.lastOp = "start"]
    /\ UNCHANGED << main, sf, lv, ctx, extra >>

\* if not self.is_running: ... return
RtStopGuard == ~rt.is_running

\* stop(): is_running = False, stop_event.set(), _cleanup_audio()
RtStop ==
    /\ rt.cmd = "stop"
    /\ IF RtStopGuard
       THEN rt' = [rt EXCEPT !.cmd = "idle", !.lastOp = "stop_rejected"]
       ELSE rt' = [rt EXCEPT !.is_running = FALSE, !.stop_event = TRUE,
                             !.stream = None, !.cmd = "join"]
    /\ UNCHANGED << main, sf, lv, ctx, extra >>

\* the loop thread has ended, or the 2 s of join(timeout=2) pass while it is
\* inside the model call
RtJoinReturns(t) == rt.pc[t] = "done" \/ rt.pc[t] = "model"

\* stop(): if self.thread: self.thread.join(timeout=2); self.thread = None
RtJoin ==
    /\ rt.cmd = "join"
    /\ rt.thread # None => RtJoinReturns(rt.thread)
    /\ rt' = [rt EXCEPT !.thread = None, !.cmd = "idle", !.lastOp = "stop"]
    /\ UNCHANGED << main, sf, lv, ctx, extra >>

\* the input device stops working: every read from now on raises
RtDeviceBreaks ==
    /\ rt.stream # None
    /\ ~rt.broken
    /\ rt' = [rt EXCEPT !.broken = TRUE]
    /\ UNCHANGED << main, sf, lv, ctx, extra >>

\* self.stream.read raises (dead device, or self.stream is None): the inner
\* except branch prints the error
RtReadError(t) ==
    /\ rt.pc[t] = "loop"
    /\ RtLoopOn
    /\ rt.stream = None \/ rt.broken
    /\ rt' = [rt EXCEPT !.pc[t] = "retry"]
    /\ UNCHANGED << main, sf, lv, ctx, extra >>

\* the inner except branch: time.sleep(0.1), then the loop test again
RtRetry(t) ==
    /\ rt.pc[t] = "retry"
    /\ rt' = [rt EXCEPT !.pc[t] = "loop"]
    /\ UNCHANGED << main, sf, lv, ctx, extra >>

\* One pass of the loop of _transcription_loop: read, classify, and either go
\* on or take the segment to the model.
RtFrame(t) ==
    /\ rt.pc[t] = "loop"
    /\ RtLoopOn
    /\ rt.stream # None
    /\ ~rt.broken
    /\ rt.frames < MaxRtFrames
    /\ \E f \in RtFrames :
        LET now    == rt.clock + f.dt
            onset  == f.speech /\ ~rt.is_speech_active
            sst    == IF onset THEN 0
                      ELSE IF ~f.speech /\ rt.is_speech_active
                              /\ rt.silence_start_time[t] = 0
                      THEN now ELSE rt.silence_start_time[t]
            pause  == IF f.speech THEN 0
                      ELSE IF rt.is_speech_active /\ rt.pauseStart[t] = 0 THEN now
                      ELSE rt.pauseStart[t]
            flush  == ~f.speech /\ rt.is_speech_active /\ RtPauseOver(now, sst)
            due    == ~f.speech /\ rt.is_speech_active /\ now - pause >= SilenceThresholdMs
        IN  rt' = [rt EXCEPT
                     !.clock = now,
                     !.frames = @ + 1,
                     !.lastRead[t] = rt.stream,
                     !.is_speech_active = IF f.speech THEN TRUE
                                          ELSE IF flush THEN FALSE ELSE @,
                     !.silence_start_time[t] = sst,
                     !.pauseStart[t] = IF flush THEN 0 ELSE pause,
                     !.pc[t] = IF flush THEN "model" ELSE "loop",
                     !.segLen[t] = IF flush THEN 0
                                   ELSE IF f.speech \/ rt.is_speech_active THEN @ + 1
                                   ELSE @,
                     !.segSpeech[t] = IF flush THEN 0
                                      ELSE IF f.speech THEN @ + 1 ELSE @,
                     !.flushes = IF flush THEN @ + 1 ELSE @,
                     !.flushGap = IF flush THEN now - pause ELSE @,
                     !.flushFrom = IF flush THEN sst ELSE @,
                     !.flushPause = IF flush THEN pause ELSE @,
                     !.missed = @ \/ (due /\ ~flush)]
    /\ UNCHANGED << main, sf, lv, ctx, extra >>

\* the model call of a segment returns (or raises and the fallback returns)
RtModelReturn(t) ==
    /\ rt.pc[t] = "model"
    /\ rt' = [rt EXCEPT !.pc[t] = "loop"]
    /\ UNCHANGED << main, sf, lv, ctx, extra >>

\* the loop test fails
RtExit(t) ==
    /\ rt.pc[t] = "loop"
    /\ ~RtLoopOn
    /\ rt' = [rt EXCEPT !.pc[t] = "cleanup"]
    /\ UNCHANGED << main, sf, lv, ctx, extra >>

\* finally: self._cleanup_audio()
RtCleanup(t) ==
    /\ rt.pc[t] = "cleanup"
    /\ rt' = [rt EXCEPT !.stream = None, !.pc[t] = "done"]
    /\ UNCHANGED << main, sf, lv, ctx, extra >>

RtLoopThread(t) ==
    \/ RtFrame(t)
    \/ RtReadError(t)
    \/ RtRetry(t)
    \/ RtModelReturn(t)
    \/ RtExit(t)
    \/ RtCleanup(t)

RtCaller ==
    \/ RtReceive
    \/ RtToggle
    \/ RtStartOpen
    \/ RtStartRun
    \/ RtStop
    \/ RtJoin

RtNext ==
    \/ RtCaller
    \/ RtDeviceBreaks
    \/ \E t \in RtThreads : RtLoopThread(t)

RtInit == MainIdle /\ rt = RtIdle /\ sf = None /\ lv = None /\ ctx = None /\ ExtraIdle

RtSpec == RtInit /\ [][RtNext]_vars

\* Scheduling: a command in progress keeps running and every loop thread
\* gets to run; which command arrives next, and when, is the user's choice.
RtCommandSteps ==
    \/ RtToggle
    \/ RtStartOpen
    \/ RtStartRun
    \/ RtStop
    \/ RtJoin

RtFairness ==
    /\ WF_vars(RtCommandSteps)
    /\ \A t \in RtThreads : WF_vars(RtLoopThread(t))

RtFairSpec == RtSpec /\ RtFairness

\* ================================================ static-file transcription
\* StaticFileProcessor: transcribe_file and request_abort called from the
\* command thread, _transcribe_in_thread run by one thread per file.

\* thread.is_alive()
SfAlive(t) == sf.pc[t] \notin {"unborn", "done"}

\* is_transcribing() evaluated in one piece (under static_transcription_lock)
SfIsTranscribing ==
    sf.transcription_thread # None /\ SfAlive(sf.transcription_thread)

\* positions of _transcribe_in_thread with a should_abort() check still ahead
SfBeforeCheckpoint == {"reset", "convert", "vad", "pre", "model"}

\* the caller: CommandServer._handle_command, one command at a time
SfReceive ==
    /\ sf.cmd = "idle"
    /\ \E c \in {"transcribe", "abort"} : sf' = [sf EXCEPT !.cmd = c]
    /\ UNCHANGED << main, rt, lv, ctx, extra >>

\* transcribe_file: is_transcribing(), first operand
\* (self.transcription_thread is not None)
SfTranscribeCheck ==
    /\ sf.cmd = "transcribe"
    /\ sf' = [sf EXCEPT !.cmd = IF sf.transcription_thread # None
                                THEN "transcribe_alive" ELSE "pick"]
    /\ UNCHANGED << main, rt, lv, ctx, extra >>

\* transcribe_file: is_transcribing(), second operand
\* (self.transcription_thread.is_alive(), the attribute read again)
SfTranscribeAlive ==
    /\ sf.cmd = "transcribe_alive"
    /\ sf' = IF sf.transcription_thread = None
             THEN [sf EXCEPT !.cmd = "idle", !.lastOp = "transcribe_error"]
             ELSE IF SfAlive(sf.transcription_thread)
             THEN [sf EXCEPT !.cmd = "idle", !.lastOp = "transcribe_rejected"]
             ELSE [sf EXCEPT !.cmd = "pick"]
    /\ UNCHANGED << main, rt, lv, ctx, extra >>

\* transcribe_file: file dialog, then the thread is created and started
SfTranscribeStart ==
    /\ sf.cmd = "pick"
    /\ \E chosen \in BOOLEAN :
         IF chosen
         THEN /\ sf.started < MaxSfThreads
              /\ LET t == sf.started + 1 IN
                 sf' = [sf EXCEPT !.transcription_thread = t, !.pc[t] = "reset",
                                  !.started = t, !.cmd = "idle",
                                  !.lastOp = "transcribe"]
         ELSE sf' = [sf EXCEPT !.cmd = "idle", !.lastOp = "transcribe_none"]
    /\ UNCHANGED << main, rt, lv, ctx, extra >>

\* request_abort, the part under the lock: nothing to abort, or the flag is
\* set and the thread remembered
SfAbortBegin ==
    /\ sf.cmd = "abort"
    /\ sf' = IF ~SfIsTranscribing
             THEN [sf EXCEPT !.cmd = "idle", !.lastOp = "abort_none"]
             ELSE [sf EXCEPT !.abort_static_transcription = TRUE,
                             !.target = sf.transcription_thread,
                             !.aborted = IF sf.pc[sf.transcription_thread]
                                              \in SfBeforeCheckpoint
                                         THEN @ \cup {sf.transcription_thread} ELSE @,
                             !.cmd = "terminate"]
    /\ UNCHANGED << main, rt, lv, ctx, extra >>

\* _terminate_thread: SystemExit is set in the thread on win32, nothing is
\* done elsewhere
SfTerminate ==
    /\ sf.cmd = "terminate"
    /\ sf' = [sf EXCEPT !.killed[sf.target] =
                            @ \/ (sf.platform = "win32" /\ SfAlive(sf.target)),
                        !.rounds = 0,
                        !.cmd = "grace"]
    /\ UNCHANGED << main, rt, lv, ctx, extra >>

\* grace loop: time.time() - start_time < grace_period, then the first
\* operand of is_transcribing()
SfGraceCheck ==
    /\ sf.cmd = "grace"
    /\ \E expired \in BOOLEAN :
         /\ sf.rounds >= GraceRounds => expired
         /\ sf' = [sf EXCEPT !.cmd = IF expired \/ sf.transcription_thread = None
                                     THEN "final" ELSE "grace_alive"]
    /\ UNCHANGED << main, rt, lv, ctx, extra >>

\* grace loop: the second operand of is_transcribing(), then time.sleep(0.1)
SfGraceAlive ==
    /\ sf.cmd = "grace_alive"
    /\ sf' = IF sf.transcription_thread = None
             THEN [sf EXCEPT !.cmd = "idle", !.target = None, !.lastOp = "abort_error"]
             ELSE IF SfAlive(sf.transcription_thread)
             THEN [sf EXCEPT !.cmd = "grace", !.rounds = @ + 1]
             ELSE [sf EXCEPT !.cmd = "final"]
    /\ UNCHANGED << main, rt, lv, ctx, extra >>

\* after the loop: if self.is_transcribing(), first operand
SfFinalCheck ==
    /\ sf.cmd = "final"
    /\ sf' = [sf EXCEPT !.cmd = IF sf.transcription_thread = None
                                THEN "finish" ELSE "final_alive"]
    /\ UNCHANGED << main, rt, lv, ctx, extra >>

\* after the loop: if self.is_transcribing(), second operand
SfFinalAlive ==
    /\ sf.cmd = "final_alive"
    /\ sf' = IF sf.transcription_thread = None
             THEN [sf EXCEPT !.cmd = "idle", !.target = None, !.lastOp = "abort_error"]
             ELSE IF SfAlive(sf.transcription_thread)
             THEN [sf EXCEPT !.cmd = "clear"]
             ELSE [sf EXCEPT !.cmd = "finish"]
    /\ UNCHANGED << main, rt, lv, ctx, extra >>

\* with the lock: self.transcription_thread = None
SfClear ==
    /\ sf.cmd = "clear"
    /\ sf' = [sf EXCEPT !.transcription_thread = None, !.cmd = "finish"]
    /\ UNCHANGED << main, rt, lv, ctx, extra >>

\* _cleanup_temp_files, tray reset, return
SfFinish ==
    /\ sf.cmd = "finish"
    /\ sf' = [sf EXCEPT !.cmd = "idle", !.target = None, !.lastOp = "abort_done"]
    /\ UNCHANGED << main, rt, lv, ctx, extra >>

\* should_abort()
SfShouldAbort == sf.abort_static_transcription

\* _transcribe_in_thread: the abort flag is reset at the start
SfReset(t) ==
    /\ sf.pc[t] = "reset"
    /\ ~sf.killed[t]
    /\ sf' = [sf EXCEPT !.abort_static_transcription = FALSE, !.pc[t] = "convert"]
    /\ UNCHANGED << main, rt, lv, ctx, extra >>

\* step 1: _ensure_wav_format (may fail), then the check after conversion
SfConvert(t) ==
    /\ sf.pc[t] = "convert"
    /\ ~sf.killed[t]
    /\ \E converted \in BOOLEAN :
         sf' = [sf EXCEPT !.pc[t] = IF converted /\ ~SfShouldAbort
                                    THEN "vad" ELSE "finally"]
    /\ UNCHANGED << main, rt, lv, ctx, extra >>

\* step 2: _apply_vad, then the check after VAD
SfVad(t) ==
    /\ sf.pc[t] = "vad"
    /\ ~sf.killed[t]
    /\ sf' = [sf EXCEPT !.pc[t] = IF SfShouldAbort THEN "finally" ELSE "pre"]
    /\ UNCHANGED << main, rt, lv, ctx, extra >>

\* the check before the model call
SfPre(t) ==
    /\ sf.pc[t] = "pre"
    /\ ~sf.killed[t]
    /\ sf' = [sf EXCEPT !.pc[t] = IF SfShouldAbort THEN "finally" ELSE "model"]
    /\ UNCHANGED << main, rt, lv, ctx, extra >>

\* step 3: transcriber.transcribe returns, then the check after it
SfModel(t) ==
    /\ sf.pc[t] = "model"
    /\ ~sf.killed[t]
    /\ sf' = [sf EXCEPT !.pc[t] = IF SfShouldAbort THEN "finally" ELSE "display"]
    /\ UNCHANGED << main, rt, lv, ctx, extra >>

\* the result is printed and written next to the file
SfDisplay(t) ==
    /\ sf.pc[t] = "display"
    /\ ~sf.killed[t]
    /\ sf' = [sf EXCEPT !.shown = @ \cup {t}, !.pc[t] = "finally"]
    /\ UNCHANGED << main, rt, lv, ctx, extra >>

\* except SystemExit: the exception set by _terminate_thread is raised
SfKilled(t) ==
    /\ sf.pc[t] \in SfBeforeCheckpoint \cup {"display"}
    /\ sf.killed[t]
    /\ sf' = [sf EXCEPT !.pc[t] = "finally"]
    /\ UNCHANGED << main, rt, lv, ctx, extra >>

\* finally: with the lock, self.transcription_thread = None; the thread ends
SfFinally(t) ==
    /\ sf.pc[t] = "finally"
    /\ sf' = [sf EXCEPT !.transcription_thread = None, !.pc[t] = "done"]
    /\ UNCHANGED << main, rt, lv, ctx, extra >>

SfThread(t) ==
    \/ SfReset(t)
    \/ SfConvert(t)
    \/ SfVad(t)
    \/ SfPre(t)
    \/ SfModel(t)
    \/ SfDisplay(t)
    \/ SfKilled(t)
    \/ SfFinally(t)

SfCaller ==
    \/ SfReceive
    \/ SfTranscribeCheck
    \/ SfTranscribeAlive
    \/ SfTranscribeStart
    \/ SfAbortBegin
    \/ SfTerminate
    \/ SfGraceCheck
    \/ SfGraceAlive
    \/ SfFinalCheck
    \/ SfFinalAlive
    \/ SfClear
    \/ SfFinish

SfNext ==
    \/ SfCaller
    \/ \E t \in SfThreads : SfThread(t)

SfInit ==
    /\ MainIdle
    /\ rt = None
    /\ lv = None
    /\ ctx = None /\ ExtraIdle
    /\ \E p \in {"win32", "other"} : sf = [SfIdle EXCEPT !.platform = p]

SfSpec == SfInit /\ [][SfNext]_vars

\* ============================================== list-collecting long-form
\* The long-form scripts that keep the chunk transcripts in a list:
\* start_recording, split_current_chunk, partial_transcribe and
\* stop_recording_and_transcribe.

\* what the model returns for chunk k
LvText(k) == << k >>

\* start_recording: the lists are cleared, the first chunk file is opened
LvStart ==
    /\ lv.pc \in {"idle", "emitted"}
    /\ ~lv.recording
    /\ lv.sessions < MaxLvSessions
    /\ lv' = [lv EXCEPT !.recording = TRUE, !.current_chunk_index = 1,
                        !.transcription_threads = {}, !.done = {}, !.kept = {},
                        !.partial_transcripts = << >>, !.pc = "recording",
                        !.sessions = @ + 1]
    /\ UNCHANGED << main, rt, sf, ctx, extra >>

\* split_current_chunk: a transcription thread for the closed chunk, the next
\* chunk file is opened
LvSplit ==
    /\ lv.pc = "recording"
    /\ lv.current_chunk_index < MaxLvChunks
    /\ lv' = [lv EXCEPT !.transcription_threads = @ \cup {lv.current_chunk_index},
                        !.current_chunk_index = @ + 1]
    /\ UNCHANGED << main, rt, sf, ctx, extra >>

\* partial_transcribe of chunk k: the text is appended when the model call
\* succeeds, nothing is appended when it raises
LvTranscribe(k) ==
    /\ k \in lv.transcription_threads \ lv.done
    /\ \E ok \in BOOLEAN :
         lv' = [lv EXCEPT !.partial_transcripts =
                              IF ok THEN Append(@, LvText(k)) ELSE @,
                          !.kept = IF ok THEN @ \cup {k} ELSE @,
                          !.done = @ \cup {k}]
    /\ UNCHANGED << main, rt, sf, ctx, extra >>

\* stop_recording_and_transcribe: recording stops, the last chunk gets a
\* thread when its file has audio
LvStop ==
    /\ lv.pc = "recording"
    /\ \E audio \in BOOLEAN :
         lv' = [lv EXCEPT !.recording = FALSE,
                          !.transcription_threads =
                              IF audio THEN @ \cup {lv.current_chunk_index} ELSE @,
                          !.pc = "joining"]
    /\ UNCHANGED << main, rt, sf, ctx, extra >>

\* stop_recording_and_transcribe: every thread joined, "".join(partial_transcripts)
LvEmit ==
    /\ lv.pc = "joining"
    /\ lv.transcription_threads \subseteq lv.done
    /\ lv' = [lv EXCEPT !.sink = Join(lv.partial_transcripts), !.pc = "emitted"]
    /\ UNCHANGED << main, rt, sf, ctx, extra >>

LvNext ==
    \/ LvStart
    \/ LvSplit
    \/ \E k \in LvChunks : LvTranscribe(k)
    \/ LvStop
    \/ LvEmit

LvInit == MainIdle /\ rt = None /\ sf = None /\ lv = LvIdle /\ ctx = None /\ ExtraIdle

LvSpec == LvInit /\ [][LvNext]_vars

\* ================================================ real-time segment context
\* The two lists of _transcription_loop: current_segment collects the frames
\* of the segment in progress, accumulated_speech holds what goes to the model
\* and, after the call, the frames kept as context.

\* a context that keeps every frame
RtKeepFramesAll(accumulated_speech) == Len(accumulated_speech)

\* keep_frames = min(20, len(accumulated_speech))
RtKeepFrames(accumulated_speech) ==
    IF KeepContext < Len(accumulated_speech) THEN KeepContext
    ELSE Len(accumulated_speech)

\* accumulated_speech[-keep_frames:] if keep_frames > 0 else []
RtContext(accumulated_speech) ==
    LET keep_frames == RtKeepFrames(accumulated_speech)
        n == Len(accumulated_speech)
    IN  IF keep_frames > 0
        THEN SubSeq(accumulated_speech, n - keep_frames + 1, n)
        ELSE << >>

\* current_segment.append(data)
CtxAppend ==
    /\ ctx.next <= MaxCtxFrames
    /\ ctx' = [ctx EXCEPT !.current_segment = Append(@, ctx.next), !.next = @ + 1]
    /\ UNCHANGED << main, rt, sf, lv, extra >>

\* the end of a segment: accumulated_speech.extend(current_segment), the model
\* call on accumulated_speech, then the context is cut out of it
CtxFlush ==
    /\ ctx.current_segment # << >>
    /\ ctx.flushes < MaxCtxFlushes
    /\ LET audio == ctx.accumulated_speech \o ctx.current_segment IN
       ctx' = [ctx EXCEPT !.before = ctx.accumulated_speech,
                          !.passed = audio,
                          !.accumulated_speech = RtContext(audio),
                          !.current_segment = << >>,
                          !.flushes = @ + 1]
    /\ UNCHANGED << main, rt, sf, lv, extra >>

CtxNext ==
    \/ CtxAppend
    \/ CtxFlush

CtxInit == MainIdle /\ rt = None /\ sf = None /\ lv = None /\ ctx = CtxIdle /\ ExtraIdle

CtxSpec == CtxInit /\ [][CtxNext]_vars

\* ================================================================ _is_speech
\* RealtimeTranscriptionHandler._is_speech as a function of the chunk: its
\* length in bytes and what the VAD says of each of its complete sub-frames
\* ("speech", "silence", or "error" when is_speech raises).

\* required_samples = int(self.config.rate * frame_duration_ms / 1000)
VadRequiredSamples == (Rate * FrameDurationMs) \div 1000

\* required_samples * 2: bytes of one sub-frame of 16-bit samples
VadFrameBytes == VadRequiredSamples * SampleWidth

\* bytes of a chunk beyond its complete sub-frames
VadRemainders == {0, 1, DefaultChunk * SampleWidth - 2 * VadFrameBytes, VadFrameBytes - 1}

VadClasses == {"speech", "silence", "error"}

\* the chunks given to _is_speech
VadChunks ==
    UNION { { [len |-> n * VadFrameBytes + r, classes |-> c] :
                r \in VadRemainders, c \in [1..n -> VadClasses] } :
            n \in 0..MaxVadFrames }

\* range(0, len(audio_chunk) - required_samples * 2, required_samples * 2)
VadRange(len) ==
    { i \in 0..len : i % VadFrameBytes = 0 /\ i < len - VadFrameBytes }

\* len(audio_chunk[i:i + required_samples * 2])
VadSliceLen(len, i) == IF i + VadFrameBytes <= len THEN VadFrameBytes ELSE len - i

\* _is_speech
VadIsSpeech(available, len, classes) ==
    IF ~available THEN TRUE
    ELSE IF len < VadFrameBytes THEN FALSE
    ELSE LET frames_to_check == VadRange(len)
             speech_frames ==
                 Cardinality({ i \in frames_to_check :
                                 /\ VadSliceLen(len, i) = VadFrameBytes
                                 /\ classes[i \div VadFrameBytes + 1] = "speech" })
         IN  \* speech_ratio > 0.25, with ratio 0 for an empty list
             /\ frames_to_check # {}
             /\ 4 * speech_frames > Cardinality(frames_to_check)

\* the loop calls _is_speech on the chunk it has read
VadApply ==
    /\ vad.pc = "chunk"
    /\ vad' = [vad EXCEPT !.result = VadIsSpeech(vad.available, vad.len, vad.classes),
                          !.pc = "done"]
    /\ UNCHANGED << main, rt, sf, lv, ctx, app, ca, ss >>

VadNext == VadApply

VadInit ==
    /\ MainIdle /\ rt = None /\ sf = None /\ lv = None /\ ctx = None
    /\ app = None /\ ca = None /\ ss = None
    /\ \E ch \in VadChunks, av \in BOOLEAN :
         vad = [pc |-> "chunk", available |-> av, len |-> ch.len,
                classes |-> ch.classes, result |-> FALSE]

VadSpec == VadInit /\ [][VadNext]_vars

\* ======================================================== the Session script
\* staticSTT ... N14.1-Q6.py: one Session from F3 (start_recording) over
\* record_audio and its splits to F4 (stop_recording_and_transcribe) and
\* finalize.  Time in ms; a text is the number of the chunk it comes from.

SsChunks == 1..MaxSsChunks

\* chunk_time = float(CHUNK) / RATE
SsChunkTime == (DefaultChunk * 1000) \div Rate

\* self.chunks_per_second = RATE // CHUNK
SsChunksPerSecond == Rate \div DefaultChunk

\* wall-clock time between two reads: one chunk of audio, or a whole split
\* interval
SsSteps == {SsChunkTime, ChunkSplitInterval}

\* start_recording(): guard, Session(), recording = True, and
\* Session.start_recording (stream, first chunk file, thread)
SsStart ==
    /\ ss.cmd = "idle"
    /\ ~ss.recording
    /\ ss.pc = "unborn"
    /\ ss' = [ss EXCEPT !.current_session = TRUE, !.recording = TRUE,
                        !.stream = TRUE,
                        !.active_filename = 1, !.active_wave_file = TRUE,
                        !.files[1] = 0, !.current_chunk_index = 2,
                        !.pc = "loop", !.startedAt = ss.clock]
    /\ UNCHANGED << main, rt, sf, lv, ctx, app, ca, vad >>

\* (not self.chunk_split_requested) and
\* (elapsed >= (self.next_split_time - self.record_start_time)), or the
\* request is already set
SsArmed(now) ==
    \/ ss.chunk_split_requested
    \/ now - ss.record_start_time >= ss.next_split_time - ss.record_start_time

\* split_current_chunk applied to session record c: the active file is closed
\* and handed to a thread, the next file is opened
SsSplitCurrentChunk(c) ==
    LET k == c.active_filename
        n == c.current_chunk_index
    IN  [c EXCEPT !.tpc[k] = "run",
                  !.transcription_threads = Append(@, k),
                  !.current_chunk_index = n + 1,
                  !.active_filename = n,
                  !.files[n] = 0,
                  !.sinceSplit = 0]

\* one pass of the loop of record_audio
SsFrame ==
    /\ ss.pc = "loop"
    /\ ss.recording
    /\ ss.frames < MaxSsFrames
    /\ \E silent \in BOOLEAN, dt \in SsSteps :
        LET now     == ss.clock + dt
            sd      == IF silent THEN ss.silent_duration + SsChunkTime ELSE 0
            kept    == ~silent \/ sd <= SilenceLimitSec
            split   == silent /\ SsArmed(now) /\ sd >= SplitSilence
            c1      == [ss EXCEPT !.clock = now,
                                  !.frames = @ + 1,
                                  !.silent_duration = sd,
                                  !.chunk_split_requested = SsArmed(now),
                                  !.buffer = IF kept THEN @ + 1 ELSE @,
                                  !.chunk_count = IF kept THEN @ + 1 ELSE @,
                                  !.sinceSplit = IF kept THEN @ + 1 ELSE @]
            c2      == IF split
                       THEN [SsSplitCurrentChunk(c1) EXCEPT
                                !.next_split_time = @ + ChunkSplitInterval,
                                !.chunk_split_requested = FALSE]
                       ELSE c1
            c3      == IF c2.chunk_count >= SsChunksPerSecond
                       THEN [c2 EXCEPT !.files[c2.active_filename] = @ + c2.buffer,
                                       !.buffer = 0, !.chunk_count = 0]
                       ELSE c2
        IN  /\ split => ss.current_chunk_index <= MaxSsChunks
            /\ ss' = c3
    /\ UNCHANGED << main, rt, sf, lv, ctx, app, ca, vad >>

\* record_audio after the loop: the buffer is written, file and stream are
\* closed, the finalize thread is started
SsLoopExit ==
    /\ ss.pc = "loop"
    /\ ~ss.recording
    /\ ss' = [ss EXCEPT !.files[ss.active_filename] = @ + ss.buffer,
                        !.buffer = 0,
                        !.active_wave_file = FALSE, !.stream = FALSE,
                        !.pc = "done", !.fpc = "join"]
    /\ UNCHANGED << main, rt, sf, lv, ctx, app, ca, vad >>

\* partial_transcribe of chunk k: model.transcribe returns and the text is
\* appended, or it raises and the thread ends
SsPartialTranscribe(k) ==
    /\ ss.tpc[k] = "run"
    /\ \E ok \in BOOLEAN :
         ss' = [ss EXCEPT !.tpc[k] = "done",
                          !.partial_transcripts = IF ok THEN Append(@, k) ELSE @]
    /\ UNCHANGED << main, rt, sf, lv, ctx, app, ca, vad >>

\* stop_recording_and_transcribe(): guard, recording = False
SsStop ==
    /\ ss.cmd = "idle"
    /\ ss.recording
    /\ ss' = [ss EXCEPT !.recording = FALSE, !.cmd = "join"]
    /\ UNCHANGED << main, rt, sf, lv, ctx, app, ca, vad >>

\* current_session.recording_thread.join() returns; current_session = None
SsStopJoined ==
    /\ ss.cmd = "join"
    /\ ss.pc = "done"
    /\ ss' = [ss EXCEPT !.current_session = FALSE, !.cmd = "idle"]
    /\ UNCHANGED << main, rt, sf, lv, ctx, app, ca, vad >>

\* the texts of the chunks in the order of the list
SsFullText(texts) == texts

\* finalize: the threads are joined, the texts are combined, shown and
\* pasted, the session directory is deleted
SsFinalize ==
    /\ ss.fpc = "join"
    /\ \A i \in 1..Len(ss.transcription_threads) :
          ss.tpc[ss.transcription_threads[i]] = "done"
    /\ ss' = [ss EXCEPT !.sink = SsFullText(ss.partial_transcripts),
                        !.emitted = TRUE,
                        !.lost = ss.files[ss.active_filename],
                        !.files = [k \in SsChunks |-> Absent],
                        !.fpc = "done"]
    /\ UNCHANGED << main, rt, sf, lv, ctx, app, ca, vad >>

SsNext ==
    \/ SsStart
    \/ SsFrame
    \/ SsLoopExit
    \/ SsStop
    \/ SsStopJoined
    \/ SsFinalize
    \/ \E k \in SsChunks : SsPartialTranscribe(k)

SsInit ==
    /\ MainIdle /\ rt = None /\ sf = None /\ lv = None /\ ctx = None
    /\ app = None /\ ca = None /\ ss = SsIdle /\ vad = None

SsSpec == SsInit /\ [][SsNext]_vars

\* ===================================================== real-time stream clean-up
\* _cleanup_audio of RealtimeTranscriptionHandler, statement by statement,
\* as run by stop() on the command thread and by the finally block of each
\* loop thread.

CaThreads == 1..MaxRtSessions

CaActors == 0..MaxRtSessions

\* start(): guard, _initialize_audio, is_running = True, thread start
CaStart ==
    /\ ca.cmd = "idle"
    /\ ~ca.is_running
    /\ ca.sessions < MaxRtSessions
    /\ LET t == ca.sessions + 1 IN
       ca' = [ca EXCEPT !.stream = t, !.is_running = TRUE, !.pc[t] = "loop",
                        !.sessions = t]
    /\ UNCHANGED << main, rt, sf, lv, ctx, app, ss, vad >>

\* stop(): guard, is_running = False, stop_event.set(), then _cleanup_audio
CaStop ==
    /\ ca.cmd = "idle"
    /\ ca.is_running
    /\ ca' = [ca EXCEPT !.is_running = FALSE, !.cmd = "cleanup", !.clean[0] = "test"]
    /\ UNCHANGED << main, rt, sf, lv, ctx, app, ss, vad >>

\* _cleanup_audio is over for actor a, normally or by an exception: stop()
\* goes on to the join (or is left by the exception), a loop thread ends
CaLeave(c, a, raised) ==
    IF a = 0
    THEN [c EXCEPT !.clean[a] = "off", !.cmd = IF raised THEN "idle" ELSE "join"]
    ELSE [c EXCEPT !.clean[a] = "off", !.pc[a] = "done"]

\* if self.stream:
CaTest(a) ==
    /\ ca.clean[a] = "test"
    /\ ca' = IF ca.stream # None
             THEN [ca EXCEPT !.clean[a] = "stop_stream"]
             ELSE CaLeave(ca, a, FALSE)
    /\ UNCHANGED << main, rt, sf, lv, ctx, app, ss, vad >>

\* self.stream.stop_stream(): the attribute is read again
CaStopStream(a) ==
    /\ ca.clean[a] = "stop_stream"
    /\ ca' = IF ca.stream # None
             THEN [ca EXCEPT !.touched[ca.stream] = @ \cup {a}, !.clean[a] = "close"]
             ELSE CaLeave([ca EXCEPT !.derefNone = @ \cup {a}], a, TRUE)
    /\ UNCHANGED << main, rt, sf, lv, ctx, app, ss, vad >>

\* self.stream.close(): the attribute is read again
CaClose(a) ==
    /\ ca.clean[a] = "close"
    /\ ca' = IF ca.stream # None
             THEN [ca EXCEPT !.touched[ca.stream] = @ \cup {a}, !.clean[a] = "clear"]
             ELSE CaLeave([ca EXCEPT !.derefNone = @ \cup {a}], a, TRUE)
    /\ UNCHANGED << main, rt, sf, lv, ctx, app, ss, vad >>

\* self.stream = None, and the audio part of _cleanup_audio
CaClear(a) ==
    /\ ca.clean[a] = "clear"
    /\ ca' = CaLeave([ca EXCEPT !.stream = None], a, FALSE)
    /\ UNCHANGED << main, rt, sf, lv, ctx, app, ss, vad >>

\* stop(): self.thread.join(timeout=2) returns, with the loop thread ended or
\* not; self.thread = None
CaJoin ==
    /\ ca.cmd = "join"
    /\ ca' = [ca EXCEPT !.cmd = "idle"]
    /\ UNCHANGED << main, rt, sf, lv, ctx, app, ss, vad >>

\* the loop test of _transcription_loop fails: finally: _cleanup_audio()
CaLoopExit(t) ==
    /\ ca.pc[t] = "loop"
    /\ ~ca.is_running
    /\ ca' = [ca EXCEPT !.pc[t] = "cleanup", !.clean[t] = "test"]
    /\ UNCHANGED << main, rt, sf, lv, ctx, app, ss, vad >>

\* one statement of _cleanup_audio run by actor a
CaCleanup(a) ==
    \/ CaTest(a)
    \/ CaStopStream(a)
    \/ CaClose(a)
    \/ CaClear(a)

CaNext ==
    \/ CaStart
    \/ CaStop
    \/ CaJoin
    \/ \E t \in CaThreads : CaLoopExit(t)
    \/ \E a \in CaActors : CaCleanup(a)

CaInit ==
    /\ MainIdle /\ rt = None /\ sf = None /\ lv = None /\ ctx = None
    /\ app = None /\ ca = CaIdle /\ ss = None /\ vad = None

CaSpec == CaInit /\ [][CaNext]_vars

\* ============================================================ the application
\* STTApp (main.py): the commands of CommandServer._handle_command, run one
\* at a time by the server thread, with LongFormAudioRecorder, the flags of
\* the real-time handler and of the static processor, and the tray icon.

AppCommands ==
    {"START_RECORDING", "STOP_AND_TRANSCRIBE", "TOGGLE_REALTIME_TRANSCRIPTION",
     "TRANSCRIBE_STATIC", "RESET_TRANSCRIPTION"}

AppFlashThreads == 1..MaxFlashes

AppRtThreads == 1..MaxRtSessions

AppSfThreads == 1..MaxSfThreads

\* TrayManager.set_color called for a change of state: the icon is replaced;
\* every flash still sleeping is from now on older than the colour shown
AppSetColor(a, color_name) ==
    [a EXCEPT !.icon = color_name,
              !.flashStale = [f \in AppFlashThreads |-> a.flashPc[f] = "sleep"]]

\* TrayManager.flash_white: white now, and a thread that sets final_color
\* after 0.5 s
AppFlashWhite(a, final_color) ==
    LET f == a.flashes + 1 IN
    [a EXCEPT !.icon = "white",
              !.flashPc[f] = "sleep",
              !.flashFinal[f] = final_color,
              !.flashStale[f] = FALSE,
              !.flashes = f]

\* flash_white can be called once more within the bound
AppCanFlash == app.flashes < MaxFlashes

\* revert_icon of flash thread f: time.sleep(0.5); set_color(final_color)
AppRevert(f) ==
    /\ app.flashPc[f] = "sleep"
    /\ app' = [app EXCEPT !.icon = app.flashFinal[f], !.flashPc[f] = "done"]
    /\ UNCHANGED << main, rt, sf, lv, ctx, ca, ss, vad >>

\* thread.is_alive() of a static transcription thread
AppSfAlive(t) == app.sfPc[t] \in {"run", "killed"}

\* StaticFileProcessor.is_transcribing()
AppIsTranscribing ==
    app.transcription_thread # None /\ AppSfAlive(app.transcription_thread)

\* thread.is_alive() of a real-time loop thread
AppRtAlive(t) == app.rtPc[t] \in {"loop", "model"}

\* CommandServer._run_server: the next command is accepted
AppReceive ==
    /\ app.cmd = "idle"
    /\ \E c \in AppCommands : app' = [app EXCEPT !.cmd = c]
    /\ UNCHANGED << main, rt, sf, lv, ctx, ca, ss, vad >>

\* LongFormAudioRecorder._cleanup_resources: the recorder is shut down and
\* released, recording is False
AppCleanupResources(a) == [a EXCEPT !.recorder = FALSE, !.recording = FALSE]

\* STTApp.start_recording with LongFormAudioRecorder.start
AppStartRecording ==
    /\ app.cmd = "START_RECORDING"
    /\ IF app.is_running \/ AppIsTranscribing
       THEN /\ AppCanFlash
            /\ app' = [AppFlashWhite(app, "gray") EXCEPT
                          !.cmd = "idle", !.lastOp = "start_refused"]
       ELSE IF app.recording
       THEN app' = [app EXCEPT !.cmd = "idle", !.lastOp = "start_rejected"]
       ELSE \E built \in BOOLEAN :
              IF built
              THEN app' = [AppSetColor(app, "red") EXCEPT
                              !.final_text = 0, !.text_ready = FALSE,
                              !.recorder = TRUE, !.recording = TRUE,
                              !.cmd = "idle", !.lastOp = "start"]
              ELSE app' = [AppCleanupResources(app) EXCEPT
                              !.final_text = 0, !.text_ready = FALSE,
                              !.cmd = "idle", !.lastOp = "start_failed"]
    /\ UNCHANGED << main, rt, sf, lv, ctx, ca, ss, vad >>

\* stop_and_transcribe up to text_ready.wait(): guard, blue icon, the
\* transcription thread is started
AppStopBegin ==
    /\ app.cmd = "STOP_AND_TRANSCRIBE"
    /\ IF ~app.recording
       THEN app' = [app EXCEPT !.cmd = "idle", !.lastOp = "stop_rejected"]
       ELSE app' = [AppSetColor(app, "blue") EXCEPT
                       !.ttPc = "text", !.cmd = "wait", !.lastOp = "stopping"]
    /\ UNCHANGED << main, rt, sf, lv, ctx, ca, ss, vad >>

\* _transcription_thread_func: self.final_text = self.recorder.text(), which
\* returns a text (possibly empty) or raises
AppText ==
    /\ app.ttPc = "text"
    /\ \E outcome \in {"text", "empty", "raises"} :
         app' = [app EXCEPT !.final_text = IF outcome = "text" THEN 1 ELSE @,
                            !.ttPc = IF outcome = "raises" THEN "except" ELSE "cleanup"]
    /\ UNCHANGED << main, rt, sf, lv, ctx, ca, ss, vad >>

\* _transcription_thread_func: _cleanup_resources() in the try body or in the
\* except branch
AppThreadCleanup ==
    /\ app.ttPc \in {"cleanup", "except"}
    /\ app' = [AppCleanupResources(app) EXCEPT
                  !.ttPc = IF app.ttPc = "cleanup" THEN "set" ELSE "except_set"]
    /\ UNCHANGED << main, rt, sf, lv, ctx, ca, ss, vad >>

\* an except branch that only prints the error
AppSilentOnError == FALSE

\* the except branch of _transcription_thread_func signals the event too
AppSetsOnError == TRUE

\* _transcription_thread_func: self.text_ready.set()
AppThreadSet ==
    /\ app.ttPc \in {"set", "except_set"}
    /\ app' = [app EXCEPT !.text_ready = IF app.ttPc = "set" THEN TRUE
                                         ELSE (@ \/ AppSetsOnError),
                          !.lastOp = IF app.ttPc = "set" THEN "text"
                                     ELSE "text_error",
                          !.ttPc = "none"]
    /\ UNCHANGED << main, rt, sf, lv, ctx, ca, ss, vad >>

\* stop_and_transcribe: self.text_ready.wait() returns
AppStopWait ==
    /\ app.cmd = "wait"
    /\ app.text_ready
    /\ app' = [app EXCEPT !.cmd = "process"]
    /\ UNCHANGED << main, rt, sf, lv, ctx, ca, ss, vad >>

\* stop_and_transcribe after the wait: the text is pasted (pyperclip and
\* keyboard may raise) and the icon is set to gray
AppStopFinish ==
    /\ app.cmd = "process"
    /\ \E pasted \in BOOLEAN :
         IF pasted \/ app.final_text = 0
         THEN app' = [AppSetColor(app, "gray") EXCEPT
                         !.cmd = "idle", !.lastOp = "stop"]
         ELSE app' = [app EXCEPT !.cmd = "idle", !.lastOp = "stop_error"]
    /\ UNCHANGED << main, rt, sf, lv, ctx, ca, ss, vad >>

\* STTApp.reset_transcription: a recording is dropped (the clean-up ends in
\* an AttributeError at partial_transcripts, which the recorder class does
\* not have), a static transcription gets request_abort() up to
\* _terminate_thread, and otherwise the icon flashes
AppReset ==
    /\ app.cmd = "RESET_TRANSCRIPTION"
    /\ AppCanFlash
    /\ IF app.recording
       THEN app' = [AppCleanupResources(AppFlashWhite(app, "gray")) EXCEPT
                       !.cmd = "idle", !.lastOp = "reset_error"]
       ELSE IF AppIsTranscribing
       THEN LET t == app.transcription_thread IN
            app' = [AppFlashWhite(app, "gray") EXCEPT
                       !.sfPc[t] = IF app.platform = "win32" THEN "killed" ELSE @,
                       !.cmd = "grace"]
       ELSE app' = [AppFlashWhite(app, "gray") EXCEPT
                       !.cmd = "idle", !.lastOp = "reset_none"]
    /\ UNCHANGED << main, rt, sf, lv, ctx, ca, ss, vad >>

\* request_abort after the grace period (which ends after 0.5 s whatever the
\* thread does): a thread still alive is forgotten, the icon is set to gray
AppAbortEnd ==
    /\ app.cmd = "grace"
    /\ app' = [AppSetColor(app, "gray") EXCEPT
                  !.transcription_thread = IF AppIsTranscribing THEN None ELSE @,
                  !.cmd = "idle", !.lastOp = "abort"]
    /\ UNCHANGED << main, rt, sf, lv, ctx, ca, ss, vad >>

\* STTApp.transcribe_static and transcribe_file up to the file dialog
AppStaticBegin ==
    /\ app.cmd = "TRANSCRIBE_STATIC"
    /\ IF app.recording \/ app.is_running
       THEN /\ AppCanFlash
            /\ app' = [AppFlashWhite(app, "gray") EXCEPT
                          !.cmd = "idle", !.lastOp = "static_refused"]
       ELSE IF AppIsTranscribing
       THEN app' = [app EXCEPT !.cmd = "idle", !.lastOp = "static_rejected"]
       ELSE app' = [AppSetColor(app, "yellow") EXCEPT !.cmd = "dialog"]
    /\ UNCHANGED << main, rt, sf, lv, ctx, ca, ss, vad >>

\* transcribe_file: the dialog returns no file, or the thread is started
AppStaticDialog ==
    /\ app.cmd = "dialog"
    /\ \E chosen \in BOOLEAN :
         IF chosen
         THEN /\ app.sfStarted < MaxSfThreads
              /\ LET t == app.sfStarted + 1 IN
                 app' = [app EXCEPT !.transcription_thread = t, !.sfPc[t] = "run",
                                    !.sfStarted = t,
                                    !.cmd = "idle", !.lastOp = "static"]
         ELSE app' = [AppSetColor(app, "gray") EXCEPT
                         !.cmd = "idle", !.lastOp = "static_none"]
    /\ UNCHANGED << main, rt, sf, lv, ctx, ca, ss, vad >>

\* _transcribe_in_thread ends (done, failed, aborted at a check, or killed):
\* finally sets the icon to gray and clears self.transcription_thread
AppSfFinally(t) ==
    /\ AppSfAlive(t)
    /\ app' = [AppSetColor(app, "gray") EXCEPT
                  !.transcription_thread = None, !.sfPc[t] = "done"]
    /\ UNCHANGED << main, rt, sf, lv, ctx, ca, ss, vad >>

\* STTApp.toggle_realtime_transcription: stop() up to the join when running,
\* else the guards and RealtimeTranscriptionHandler.start()
AppToggleRealtime ==
    /\ app.cmd = "TOGGLE_REALTIME_TRANSCRIPTION"
    /\ IF app.is_running
       THEN app' = [app EXCEPT !.is_running = FALSE, !.cmd = "rt_join"]
       ELSE IF app.recording \/ AppIsTranscribing
       THEN /\ AppCanFlash
            /\ app' = [AppFlashWhite(app, "gray") EXCEPT
                          !.cmd = "idle", !.lastOp = "realtime_refused"]
       ELSE \E opened \in BOOLEAN :
              IF opened
              THEN /\ app.rtSessions < MaxRtSessions
                   /\ LET t == app.rtSessions + 1 IN
                      app' = [AppSetColor(app, "blue") EXCEPT
                                 !.is_running = TRUE, !.rtThread = t,
                                 !.rtPc[t] = "loop", !.rtSessions = t,
                                 !.cmd = "idle", !.lastOp = "realtime"]
              ELSE app' = [AppSetColor(app, "blue") EXCEPT
                              !.cmd = "idle", !.lastOp = "realtime_failed"]
    /\ UNCHANGED << main, rt, sf, lv, ctx, ca, ss, vad >>

\* stop(): self.thread.join(timeout=2) returns because the loop thread has
\* ended or because it is inside the model call; self.thread = None; gray
AppRtJoin ==
    /\ app.cmd = "rt_join"
    /\ app.rtThread # None => app.rtPc[app.rtThread] \in {"done", "model"}
    /\ app' = [AppSetColor(app, "gray") EXCEPT
                  !.rtThread = None, !.cmd = "idle", !.lastOp = "realtime_stop"]
    /\ UNCHANGED << main, rt, sf, lv, ctx, ca, ss, vad >>

\* _transcription_loop takes a segment to the model
AppRtModel(t) ==
    /\ app.rtPc[t] = "loop"
    /\ app.is_running
    /\ app' = [app EXCEPT !.rtPc[t] = "model"]
    /\ UNCHANGED << main, rt, sf, lv, ctx, ca, ss, vad >>

\* the model call returns
AppRtModelReturn(t) ==
    /\ app.rtPc[t] = "model"
    /\ app' = [app EXCEPT !.rtPc[t] = "loop"]
    /\ UNCHANGED << main, rt, sf, lv, ctx, ca, ss, vad >>

\* the loop test of _transcription_loop fails and the thread ends
AppRtExit(t) ==
    /\ app.rtPc[t] = "loop"
    /\ ~app.is_running
    /\ app' = [app EXCEPT !.rtPc[t] = "done"]
    /\ UNCHANGED << main, rt, sf, lv, ctx, ca, ss, vad >>

\* the steps of a command in progress on the server thread
AppCommandSteps ==
    \/ AppStartRecording
    \/ AppStopBegin
    \/ AppStopWait
    \/ AppStopFinish
    \/ AppReset
    \/ AppAbortEnd
    \/ AppStaticBegin
    \/ AppStaticDialog
    \/ AppToggleRealtime
    \/ AppRtJoin

\* the transcription thread of stop_and_transcribe
AppTranscriptionThread ==
    \/ AppText
    \/ AppThreadCleanup
    \/ AppThreadSet

AppNext ==
    \/ AppReceive
    \/ AppCommandSteps
    \/ AppTranscriptionThread
    \/ \E f \in AppFlashThreads : AppRevert(f)
    \/ \E t \in AppSfThreads : AppSfFinally(t)
    \/ \E t \in AppRtThreads : AppRtModel(t) \/ AppRtModelReturn(t) \/ AppRtExit(t)

AppInit ==
    /\ MainIdle /\ rt = None /\ sf = None /\ lv = None /\ ctx = None
    /\ ca = None /\ ss = None /\ vad = None
    /\ \E p \in {"win32", "other"} : app = [AppIdle EXCEPT !.platform = p]

AppSpec == AppInit /\ [][AppNext]_vars

\* Scheduling: the server thread goes on with the command it runs, the
\* transcription thread runs (recorder.text() returns or raises), and every
\* flash thread wakes up.
AppFairness ==
    /\ WF_vars(AppCommandSteps)
    /\ WF_vars(AppTranscriptionThread)
    /\ \A f \in AppFlashThreads : WF_vars(AppRevert(f))

AppFairSpec == AppSpec /\ AppFairness

TypeOK ==
    /\ recording \in BOOLEAN
    /\ recording_thread \in {None} \cup RecThreads
    /\ current_chunk_index \in 1..MaxIndex
    /\ active_filename \in 0..MaxIndex
    /\ buffer \in Nat

\* ------------------------------------------------------------------ claims
\* the transcription threads started in session s between start() and the
\* end of stop_and_transcribe(), in the order they were started
Dispatched(s) == SelectSeq(threads, LAMBDA th : th.session = s /\ th.window)

\* C1: within one session the chunk indices handed to transcription threads
\* are 1, 2, ..., N in dispatch order, and no index and no chunk file is
\* handed out twice.
C1_ChunkIndicesContiguous ==
    \A s \in 1..history.sessions :
        LET log == Dispatched(s)
        IN  \A k \in 1..Len(log) :
                /\ log[k].idx = k
                /\ \A j \in 1..Len(log) : j # k => log[j].path # log[k].path

\* a text is handed to the clipboard in this step
Emits == Len(sink') = Len(sink) + 1

\* the texts of d by ascending index 1..n, whatever the insertion order
RECURSIVE ConcatUpTo(_, _)
ConcatUpTo(d, n) ==
    IF n = 0 THEN << >>
    ELSE ConcatUpTo(d, n - 1) \o (IF n \in DictKeys(d) THEN DictGet(d, n) ELSE << >>)

WithoutLeadingBlank(text) ==
    IF text # << >> /\ text[1] = " " THEN SubSeq(text, 2, Len(text)) ELSE text

\* C2: the text stop_and_transcribe() emits is the recorded chunk texts in
\* ascending chunk index, one leading blank removed, whatever the order in
\* which the transcription threads completed (the order of insertion).
C2_EmitsInIndexOrder ==
    [][Emits => sink'[Len(sink')] =
                  WithoutLeadingBlank(ConcatUpTo(partial_transcripts, MaxIndex))]_vars

\* C2 witness: chunks 1, 2, 3 completed in the order 3, 1, 2 with the texts
\* C, A, B and "ABC" was emitted.
C2_Witness ==
    /\ history.lastOp = "stop_done"
    /\ partial_transcripts = << [idx |-> 3, text |-> <<"C">>],
                                [idx |-> 1, text |-> <<"A">>],
                                [idx |-> 2, text |-> <<"B">>] >>
    /\ sink # << >>
    /\ sink[Len(sink)] = << "A", "B", "C" >>

\* C3: when stop_and_transcribe() builds the final text, every transcription
\* thread started in the session has ended and its index has an entry in
\* partial_transcripts.
C3_AllDispatchedRecorded ==
    [][Emits => \A i \in 1..Len(threads) :
                   (threads[i].session = history.sessions /\ threads[i].window)
                   => /\ threads[i].done
                      /\ threads[i].idx \in DictKeys(partial_transcripts)]_vars

\* thread i ends in this step, its model call having failed
FailsNow(i) == ~threads[i].done /\ threads'[i].done /\ threads'[i].failed

\* C4: a failed model call records the empty string under the chunk's
\* index, leaves every other entry and the recording session as they were,
\* and does not disturb the command in progress.
C4_FailureIsLocal ==
    [][\A i \in 1..Len(threads) :
          (i <= Len(threads') /\ FailsNow(i)) =>
             /\ threads[i].idx \in DictKeys(partial_transcripts')
             /\ DictGet(partial_transcripts', threads[i].idx) = << >>
             /\ \A k \in DictKeys(partial_transcripts) \ {threads[i].idx} :
                   /\ k \in DictKeys(partial_transcripts')
                   /\ DictGet(partial_transcripts', k) = DictGet(partial_transcripts, k)
             /\ UNCHANGED << recording, recording_thread, stream, cmdPc,
                             transcription_threads, sink >>]_vars

\* C4 witness: chunk 2 of three failed, and "AC" was emitted.
C4_Witness ==
    /\ history.lastOp = "stop_done"
    /\ sink # << >>
    /\ sink[Len(sink)] = << "A", "C" >>
    /\ \E i \in 1..Len(threads) : threads[i].idx = 2 /\ threads[i].failed
    /\ 2 \in DictKeys(partial_transcripts)
    /\ DictGet(partial_transcripts, 2) = << >>

\* C5: a stop_and_transcribe() that found a recording in progress
\* eventually hands a final text to the clipboard.
C5_StopDelivers ==
    (cmdPc = "check" /\ cmdLocal.op = "stop") ~> (history.lastOp = "stop_done")

\* C6: once a session has been reset, no transcription thread of that
\* session adds an entry to partial_transcripts.
C6_ResetFreezesResults ==
    \A i \in 1..Len(threads) : ~threads[i].late

\* C7: start() while a recording is in progress changes nothing: the
\* recorder's fields, the temp files, the threads and the sink stay as they
\* were.
C7_StartWhileRecordingRejected ==
    [][(cmdPc = "start" /\ recording /\ cmdPc' # cmdPc)
          => /\ cmdPc' = "idle"
             /\ UNCHANGED << recorder, threads, recPc, recLocal, sink >>]_vars

\* C7 witness: a start() was rejected in a session that has already
\* dispatched a chunk and is still recording.
C7_Witness ==
    /\ history.lastOp = "start_rejected"
    /\ recording
    /\ Len(transcription_threads) > 0

\* C8: stop_and_transcribe() while no recording is in progress returns at
\* once: nothing dispatched, nothing joined, nothing sent to the sink, the
\* recorder's fields as they were.
C8_StopWhileIdleRejected ==
    [][(cmdPc = "stop" /\ ~recording /\ cmdPc' # cmdPc)
          => /\ cmdPc' = "idle"
             /\ UNCHANGED << recorder, threads, recPc, recLocal, cmdLocal, sink >>]_vars

\* C8 witness: a stop was rejected after a session had ended with chunks
\* dispatched, and those results are still in place.
C8_Witness ==
    /\ history.lastOp = "stop_rejected"
    /\ ~recording
    /\ partial_transcripts # << >>

\* C9: after one failed read, and with no stop or reset begun, the recorder
\* is still recording and its record thread is still in the loop.
C9_ReadErrorKeepsRecording ==
    (history.readErrors = 1 /\ history.lastOp = "start")
        => /\ recording
           /\ recPc[history.sessions] \in {"loop", "split", "advance"}

\* C10: _split_chunk runs only on a silent frame, with at least 0.1 s of
\* silence accumulated and the elapsed time at or past the deadline; speech
\* for 59.9 s followed by 0.2 s of silence under an interval of 60 s gives
\* exactly one split, none of it before the deadline.
C10_SplitOnlyOnSilenceAfterDeadline ==
    /\ \A t \in RecThreads :
          recPc[t] = "split" =>
             /\ IsSilent(recLocal[t].peak)
             /\ recLocal[t].silence_duration >= SplitSilence
             /\ recLocal[t].elapsed >= recLocal[t].deadline
    /\ input = "boundary" =>
          /\ history.splits <= 1
          /\ history.splits = 1 => clock - record_start_time >= ChunkSplitInterval
          /\ (history.sessions = 1 /\ ~FrameAvailable /\ recPc[1] \notin {"split", "unborn"})
                => history.splits = 1

\* C10 witness: the 59.9 s + 0.2 s stream has been read to its end and one
\* split was made.
C10_Witness ==
    /\ input = "boundary"
    /\ history.sessions = 1
    /\ ~FrameAvailable
    /\ history.splits = 1
    /\ recPc[1] = "loop"
    /\ recording

\* thread i records its text in this step
RecordsNow(i) == i <= Len(threads') /\ ~threads[i].done /\ threads'[i].done

\* C15: a second write for a chunk index replaces the entry of that index
\* (last write wins, no second entry), and the final concatenation is built
\* from one entry per index.
C15_LastWriteWins ==
    [][/\ \A i \in 1..Len(threads) :
            (RecordsNow(i) /\ threads[i].idx \in DictKeys(partial_transcripts))
               => /\ Len(partial_transcripts') = Len(partial_transcripts)
                  /\ Cardinality({ k \in 1..Len(partial_transcripts') :
                        partial_transcripts'[k].idx = threads[i].idx }) = 1
                  /\ DictGet(partial_transcripts', threads[i].idx) = threads'[i].text
       /\ Emits => Len(partial_transcripts) = Cardinality(DictKeys(partial_transcripts))]_vars

\* C15 witness: two threads of the session recorded a text for the same
\* index, the map holds one entry for it, and the final text was emitted.
C15_Witness ==
    /\ history.lastOp = "stop_done"
    /\ \E i, j \in 1..Len(threads) :
          /\ i < j
          /\ threads[i].done /\ threads[j].done
          /\ threads[i].session = history.sessions /\ threads[j].session = history.sessions
          /\ threads[i].window /\ threads[j].window
          /\ threads[i].idx = threads[j].idx
          /\ ~threads[i].failed /\ ~threads[j].failed
          /\ threads[i].idx \in DictKeys(partial_transcripts)
    /\ Len(partial_transcripts) = Cardinality(DictKeys(partial_transcripts))
    /\ sink # << >>
    /\ sink[Len(sink)] # << >>

\* C18: after a split, chunk_split_requested is not set again until
\* chunk_split_interval has passed since that split.
C18_RearmAfterInterval ==
    [][(~chunk_split_requested /\ chunk_split_requested' /\ history.splits > 0
           /\ history'.splits = history.splits)
          => clock' - history.splitAt >= ChunkSplitInterval]_vars

\* C19: when the record loop comes back from a split, chunk_split_requested
\* is false and the silence counter of the loop is zero.
C19_SplitResetsPolicy ==
    [][\A t \in RecThreads :
          (recPc[t] = "advance" /\ recPc'[t] = "loop")
             => /\ ~chunk_split_requested'
                /\ recLocal'[t].silence_duration = 0]_vars

\* frames written to the chunk files 1..n
RECURSIVE Written(_, _)
Written(fs, n) ==
    IF n = 0 THEN 0
    ELSE Written(fs, n - 1) + (IF fs[n] = Absent THEN 0 ELSE fs[n])

\* C20: every frame read is kept: a read adds one frame to the buffer or,
\* through the flush of the same pass, to the chunk files.
C20_EveryFrameKept ==
    [][clock' # clock
          => buffer' + Written(files', MaxIndex) = buffer + Written(files, MaxIndex) + 1]_vars

\* C11: a segment is flushed only when the time from the first silent frame
\* of the pause (the first silent frame after the last speech frame) to the
\* current silent frame is at least silence_threshold_ms, and no silent frame
\* at or past that time goes by without a flush.
C11_FlushAtThreshold ==
    /\ rt.flushes > 0 => rt.flushGap >= SilenceThresholdMs
    /\ ~rt.missed

\* C12: the silence a flush was measured from starts at the first silent
\* frame after the most recent speech frame.
C12_SpeechCancelsPause ==
    rt.flushes > 0 => rt.flushFrom = rt.flushPause

\* loop threads of the real-time handler that are about to read the stream
RtReaders == { t \in RtThreads : rt.pc[t] = "loop" /\ RtLoopOn /\ rt.stream # None }

\* C16: at most one loop thread is reading the input stream, and a loop
\* thread reads only the stream opened by the start() that created it.
C16_OneLoopThread ==
    /\ Cardinality(RtReaders) <= 1
    /\ \A t \in RtThreads : rt.lastRead[t] \in {None, t}

\* C13: a thread that was alive, with a checkpoint still ahead, when
\* request_abort() set the flag, and that was not forcibly terminated, never
\* displays or writes its result.
C13_AbortedThreadStaysSilent ==
    \A t \in sf.aborted : ~sf.killed[t] => t \notin sf.shown

\* C14: request_abort() ends by returning, and when it has returned
\* is_transcribing() is false.
C14_AbortReturnsIdle ==
    /\ sf.lastOp # "abort_error"
    /\ (sf.cmd = "idle" /\ sf.lastOp \in {"abort_done", "abort_none"})
          => ~SfIsTranscribing

\* the texts of the chunks of S in chunk order
RECURSIVE LvInChunkOrder(_)
LvInChunkOrder(S) ==
    IF S = {} THEN << >>
    ELSE LET k == CHOOSE x \in S : \A y \in S : x <= y
         IN  LvText(k) \o LvInChunkOrder(S \ {k})

\* C17: in the list-collecting scripts the combined text is the texts of the
\* transcribed chunks in chunk order, whatever the order in which the
\* transcription threads finished.
C17_ListKeepsChunkOrder ==
    lv.pc = "emitted" => lv.sink = LvInChunkOrder(lv.kept)

\* C21: when the record loop ends on a stop, the buffered frames go into the
\* active chunk file and the buffer is empty; stop_and_transcribe() then
\* hands that file to a transcription thread exactly when it holds audio
\* beyond the header, and without a hand-over the chunk index stays.
C21_StopFlushesAndDispatchesFinal ==
    [][/\ \A t \in RecThreads :
            (recPc[t] = "loop" /\ ~recording /\ cmdLocal.op = "stop"
                /\ recPc'[t] = "cleanup")
               => /\ buffer' = 0
                  /\ active_filename # None
                  /\ files[active_filename] # Absent
                  /\ files'[active_filename] = files[active_filename] + buffer
       /\ (cmdPc = "after" /\ cmdLocal.op = "stop" /\ cmdPc' # cmdPc)
            => /\ (Len(threads') = Len(threads) + 1)
                     <=> (active_filename # None /\ files[active_filename] # Absent
                            /\ files[active_filename] > 0)
               /\ Len(threads') = Len(threads)
                     => (cmdPc' = "stop_wait" /\ current_chunk_index' = current_chunk_index)]_vars

\* C22: at a split nothing is left in the buffer when the chunk file is
\* handed to its transcription thread, and the file of the next chunk is
\* empty when the loop goes on.
C22_SplitHandsOverEveryFrame ==
    [][\A t \in RecThreads :
          /\ (recPc[t] = "split" /\ recPc'[t] = "advance") => buffer = 0
          /\ (recPc[t] = "advance" /\ recPc'[t] = "loop" /\ active_wave_file' # None)
                => files'[active_wave_file'] = 0]_vars

\* C23: while a transcription thread has not finished, the chunk file it
\* was given is neither written, deleted nor created again.
C23_DispatchedFileUntouched ==
    [][\A i \in 1..Len(threads) :
          ~threads[i].done => files'[threads[i].path] = files[threads[i].path]]_vars

\* C24: whenever a record thread is in its loop, active_wave_file is an open
\* chunk file.
C24_OneActiveChunkFile ==
    \A t \in RecThreads :
        recPc[t] = "loop" => (active_wave_file # None /\ files[active_wave_file] # Absent)

\* C29: after a start() that failed to open the stream or the first chunk
\* file the recorder is not recording, has no stream, no chunk file and no
\* record thread in its loop, and the next start() is not rejected.
C29_FailedStartLeavesIdle ==
    [][/\ history'.lastOp = "start_failed"
            => /\ ~recording'
               /\ ~stream'
               /\ active_wave_file' = None
               /\ \A t \in RecThreads : recPc'[t] \notin {"loop", "split", "advance"}
       /\ (history.lastOp = "start_failed" /\ cmdPc = "start" /\ cmdPc' # cmdPc)
            => history'.lastOp \in {"start", "start_failed"}]_vars

\* C25: once the input device has failed for good, a running handler leaves
\* the running state.
C25_LoopEndsOnDeadDevice ==
    (rt.broken /\ rt.is_running) ~> ~rt.is_running

\* loop thread t takes its segment to the model in this step
RtFlushesNow(t) == rt.pc[t] = "loop" /\ rt'.pc[t] = "model"

\* C26: a silent frame read while no speech is active is not kept and
\* starts no model call, and a segment taken to the model holds at least one
\* frame classified as speech.
C26_NoEmptyWork ==
    [][/\ (rt'.frames = rt.frames + 1 /\ ~rt.is_speech_active /\ ~rt'.is_speech_active)
            => (rt'.segLen = rt.segLen /\ rt'.flushes = rt.flushes)
       /\ \A t \in RtThreads : RtFlushesNow(t) => rt.segSpeech[t] >= 1]_vars

\* C28: while the handler is running no loop thread is inside the model
\* call: the thread that reads the device does not wait for a transcription.
C28_CaptureNeverWaits ==
    \A t \in RtThreads : RtLoopOn => rt.pc[t] # "model"

\* C27: after a flush the context is the last min(20, n) frames of the n
\* frames that went to the model, never more than 20 frames, and the frames
\* that went to the model start with the context kept at the flush before.
C27_ContextIsTail ==
    ctx.flushes > 0 =>
        LET n == Len(ctx.passed)
            k == IF n <= 20 THEN n ELSE 20
        IN  /\ Len(ctx.accumulated_speech) = k
            /\ \A i \in 1..k : ctx.accumulated_speech[i] = ctx.passed[n - k + i]
            /\ Len(ctx.accumulated_speech) <= 20
            /\ Len(ctx.before) < n
            /\ \A i \in 1..Len(ctx.before) : ctx.passed[i] = ctx.before[i]
            /\ \A i \in 1..(n - 1) : ctx.passed[i + 1] = ctx.passed[i] + 1

\* C27 witness: a first segment of more than 20 frames left a context of 20
\* frames, and a later segment of fewer than 20 frames was transcribed behind
\* that context and left the last 20 frames of both.
C27_Witness ==
    /\ ctx.flushes = 2
    /\ Len(ctx.before) = 20
    /\ ctx.before[1] = 2
    /\ Len(ctx.passed) = 23
    /\ Len(ctx.accumulated_speech) = 20
    /\ ctx.accumulated_speech[1] = 5

\* static transcription threads that are running
SfRunning == { t \in SfThreads : SfAlive(t) }

\* C30: while a static transcription thread is running is_transcribing() is
\* true, and no two static transcription threads are alive together.
C30_OneStaticThread ==
    /\ SfRunning # {} => SfIsTranscribing
    /\ Cardinality(SfRunning) <= 1

\* the three modes of STTApp being at work
AppLongFormActive == app.recording

AppRealtimeActive == app.is_running \/ \E t \in AppRtThreads : AppRtAlive(t)

AppStaticActive == \E t \in AppSfThreads : AppSfAlive(t)

\* C31: at most one of long-form recording, real-time transcription and
\* static-file transcription is at work at any time.
C31_OneModeActive ==
    /\ ~(AppLongFormActive /\ AppRealtimeActive)
    /\ ~(AppLongFormActive /\ AppStaticActive)
    /\ ~(AppRealtimeActive /\ AppStaticActive)

\* a long-form recording is capturing: recording is set and no stop is being
\* carried out
AppCapturing == app.recording /\ app.cmd \notin {"wait", "process"} /\ app.ttPc = "none"

\* a flash_white() has not yet reverted
AppFlashing == \E f \in AppFlashThreads : app.flashPc[f] = "sleep"

\* C32: after every step, a capturing recorder with no flash pending shows
\* red, gray is shown only with no mode at work, and the revert of a flash
\* that is older than the last change of state leaves the icon as it is.
C32_IconShowsState ==
    [][/\ (AppCapturing' /\ ~AppFlashing') => app'.icon = "red"
       /\ app'.icon = "gray"
            => ~(app'.recording \/ app'.is_running \/ AppIsTranscribing')
       /\ \A f \in AppFlashThreads :
            (app.flashPc[f] = "sleep" /\ app'.flashPc[f] = "done" /\ app.flashStale[f])
               => app'.icon = app.icon]_vars

\* C33: stop_and_transcribe() waiting for text_ready always gets on (the
\* event is set after recorder.text() returned and after it raised), and when
\* stop_and_transcribe() is over recording is False and the recorder object
\* has been released.
C33_StopNeverHangs ==
    /\ (app.cmd = "wait") ~> (app.cmd = "idle")
    /\ [][(app.cmd = "process" /\ app'.cmd = "idle")
             => (~app'.recording /\ ~app'.recorder)]_vars

\* C33 witness: recorder.text() raised, the event was set by the except
\* branch, and stop_and_transcribe() has left the wait with the recorder
\* released.
C33_Witness ==
    /\ app.cmd = "process"
    /\ app.lastOp = "text_error"
    /\ app.text_ready
    /\ ~app.recording
    /\ ~app.recorder

\* the record loop of the current session has ended on a read error, after
\* chunks had been handed to transcription threads, and no stop or reset has
\* been accepted since
RecEndedOnError ==
    /\ history.sessions > 0
    /\ history.readErrors > 0
    /\ history.lastOp = "start"
    /\ recPc[history.sessions] \in {"clear_thread", "done"}
    /\ Len(transcription_threads) > 0

\* C34: a stop_and_transcribe() that follows a record loop ended by an error
\* is carried out (and so joins the threads of the chunks dispatched before
\* the error and emits their texts); it is not turned away.
C34_StopAfterLoopErrorEmits ==
    [][(RecEndedOnError /\ cmdPc = "stop" /\ cmdPc' # cmdPc)
          => history'.lastOp # "stop_rejected"]_vars

\* C35: stop_stream() and close() are called on a stream by one thread only,
\* and no thread running _cleanup_audio finds self.stream set to None by
\* another thread after it has passed the test.
C35_OneThreadClosesStream ==
    /\ \A st \in CaThreads : Cardinality(ca.touched[st]) <= 1
    /\ ca.derefNone = {}

\* C36: in the Session script a split is requested, and a chunk is split off,
\* only when CHUNK_SPLIT_INTERVAL has passed since the session started
\* recording.
C36_NoSplitBeforeInterval ==
    [][(\/ ss'.chunk_split_requested /\ ~ss.chunk_split_requested
        \/ Len(ss'.transcription_threads) > Len(ss.transcription_threads))
          => ss'.clock - ss.startedAt >= ChunkSplitInterval]_vars

\* C37: in the Session script, when finalize combines the texts after a
\* stop, audio recorded since the last split has been given to a
\* transcription thread and the text of its chunk is in the combined text.
C37_StopTranscribesResidual ==
    [][(ss.fpc = "join" /\ ss'.fpc = "done" /\ ss.sinceSplit > 0)
          => /\ ss.tpc[ss.active_filename] # "unborn"
             /\ \E i \in 1..Len(ss'.sink) : ss'.sink[i] = ss.active_filename]_vars

\* sub-frames of the chunk the VAD classifies as speech, out of all its
\* complete sub-frames
VadSpeechOfAll == Cardinality({ k \in 1..Len(vad.classes) : vad.classes[k] = "speech" })

\* C38: for a chunk of at least one sub-frame _is_speech answers Speech
\* exactly when more than a quarter of all its complete sub-frames are
\* classified as speech, and without the VAD it answers Speech for every
\* chunk.
C38_SpeechByRatio ==
    vad.pc = "done" =>
        /\ ~vad.available => vad.result
        /\ (vad.available /\ vad.len >= VadFrameBytes)
              => (vad.result <=> 4 * VadSpeechOfAll > Len(vad.classes))

====
